---- MODULE Spec2Model ----
(***************************************************************************)
(* A model of the SAMVAD dialogue analyser: the epistemic classifier, the  *)
(* value extractor, the reasoning tracer, the per-speaker analyser, the    *)
(* hidden-agreement detector and the report assembler, and of the web       *)
(* application's /analyze-audio route with its database manager.            *)
(*                                                                         *)
(* Conventions.                                                            *)
(*  - A Python dict is a record (its keys are the record's DOMAIN); a dict  *)
(*    whose iteration order matters (individual_analyses) is a sequence of  *)
(*    [speaker, analysis] entries in insertion order.                       *)
(*  - A Python float is an exact integer in scaled units: similarities and  *)
(*    compatibilities in hundredths (0.9 is 90), agreement_strength in      *)
(*    ten-thousandths (0.105 is 1050).  Binary rounding is not modelled.    *)
(*  - The iteration order of a Python set of strings is fixed by the        *)
(*    process's string-hash seed; hashSeed stands for it.                   *)
(*  - A thread of the web server is a request's entry in requests; its pc  *)
(*    is the place of the handler it has reached.                           *)
(***************************************************************************)
EXTENDS Integers, Sequences, FiniteSets, TLC

VARIABLES
    hashSeed,             \* the process's string-hash seed (set iteration order)
    narratives,           \* the request: a list of [speaker, text, position]
    individual_analyses,  \* speaker -> analysis, in dict insertion order
    hidden_agreements,    \* the list detect_agreements returned
    report,               \* what generate_report rendered
    first,                \* what an earlier run of the same handler returned
    outcome,              \* how the last handler ended
    pc,                   \* the caller's position
    uploads,              \* the upload folder: file name -> the request that wrote it
    whisper_model,        \* the module global of the web application, 0 for None
    load_calls,           \* how many times whisper.load_model was invoked
    database,             \* db: the committed rows of the two tables
    requests              \* the /analyze-audio requests being served: their locals

coreVars == << hashSeed, narratives, individual_analyses, hidden_agreements,
               report, first, outcome, pc >>

webVars == << uploads, whisper_model, load_calls, database, requests >>

vars == << hashSeed, narratives, individual_analyses, hidden_agreements,
           report, first, outcome, pc,
           uploads, whisper_model, load_calls, database, requests >>

\* The library called without the web application: no upload folder, no
\* transcription model, no database, no request.
NoWebProcess ==
    /\ uploads = << >>
    /\ whisper_model = 0
    /\ load_calls = 0
    /\ database = << >>
    /\ requests = << >>

----------------------------------------------------------------------------
(* Generic helpers *)

Min(a, b) == IF a <= b THEN a ELSE b

Max(a, b) == IF a >= b THEN a ELSE b

Range(s) == {s[i] : i \in 1..Len(s)}

Contains(s, x) == \E i \in 1..Len(s) : s[i] = x

IndexOf(s, x) == CHOOSE i \in 1..Len(s) : s[i] = x

\* s[:n]
Take(s, n) == SubSeq(s, 1, Min(n, Len(s)))

Reverse(s) == [i \in 1..Len(s) |-> s[Len(s) + 1 - i]]

\* dict.get(key, default)
Get(d, key, default) == IF key \in DOMAIN d THEN d[key] ELSE default

NoDup(s) == \A i, j \in 1..Len(s) : s[i] = s[j] => i = j

----------------------------------------------------------------------------
(* The fixed tables *)

\* value_keywords, in declaration order
Tags ==
    << "justice_and_fairness", "health_and_wellbeing", "economic_security",
       "family_protection", "community_wellbeing", "progress_and_innovation",
       "freedom_and_autonomy" >>

TagSet == Range(Tags)

\* A variant of the declaration with sabda written before anumana.
PramanasTestimonyFirst == << "pratyaksha", "sabda", "anumana", "upamana" >>

\* pramana_patterns, in declaration order
Pramanas == << "pratyaksha", "anumana", "sabda", "upamana" >>

\* related_values.get(v, [])
RelatedValues(v) ==
    CASE v = "health_and_wellbeing" -> << "family_protection", "community_wellbeing" >>
      [] v = "economic_security"    -> << "family_protection", "community_wellbeing" >>
      [] v = "justice_and_fairness" -> << "human_dignity", "equality" >>
      [] v = "community_wellbeing"  -> << "family_protection", "health_and_wellbeing" >>
      [] v = "family_protection"    -> << "health_and_wellbeing", "economic_security" >>
      [] OTHER                      -> << >>

CompatiblePairs ==
    { {"pratyaksha", "anumana"}, {"sabda", "anumana"}, {"pratyaksha", "sabda"} }

\* self.agreement_threshold = 0.1, in ten-thousandths
AgreementThreshold == 1000

\* shared[:5]
SharedCap == 5

----------------------------------------------------------------------------
(* Text.  A text is the sequence of its words after text.lower(); "." and   *)
(* "," are words of their own, written without a space before them.  A      *)
(* regex of the tables is kept as the word sequences it matches; words are  *)
(* separated by one space, so a phrase matches where its words are          *)
(* adjacent.                                                                *)

Punctuation == {".", ","}

\* self.pramana_patterns[category]: each regex as its word sequences
PramanaPatterns(category) ==
    CASE category = "pratyaksha" ->
        << [kind |-> "seq", alts |-> { << {"i"}, {"see", "saw", "witness", "observe", "watch", "experience"} >> }],
           [kind |-> "seq", alts |-> { << {"i"}, {"have"}, {"seen", "witnessed", "observed", "experienced"} >> }],
           [kind |-> "seq", alts |-> { << {"in"}, {"my"}, {"experience"} >> }],
           [kind |-> "seq", alts |-> { << {"firsthand"} >> }],
           [kind |-> "seq", alts |-> { << {"i"}, {"was"}, {"there"} >> }],
           [kind |-> "seq", alts |-> { << {"with"}, {"my"}, {"own"}, {"eyes"} >> }] >>
      [] category = "anumana" ->
        << [kind |-> "seq", alts |-> { << {"therefore"} >> }],
           [kind |-> "seq", alts |-> { << {"thus"} >> }],
           [kind |-> "seq", alts |-> { << {"hence"} >> }],
           [kind |-> "seq", alts |-> { << {"consequently"} >> }],
           [kind |-> "seq", alts |-> { << {"it"}, {"follows"}, {"that"} >> }],
           [kind |-> "seq", alts |-> { << {"we"}, {"can"}, {"infer"} >> }],
           [kind |-> "seq", alts |-> { << {"this"}, {"implies"} >> }],
           [kind |-> "gap", head |-> "if", tail |-> "then"],
           [kind |-> "gap", head |-> "because", tail |-> "must"] >>
      [] category = "sabda" ->
        << [kind |-> "seq", alts |-> { << {"studies"}, {"show"} >> }],
           [kind |-> "seq", alts |-> { << {"research"}, {"shows", "indicates", "proves"} >> }],
           [kind |-> "seq", alts |-> { << {"experts"}, {"say"} >> }],
           [kind |-> "seq", alts |-> { << {"according"}, {"to"} >> }],
           [kind |-> "seq", alts |-> { << {"data"}, {"shows", "indicates"} >> }],
           [kind |-> "seq", alts |-> { << {"evidence"}, {"suggests"} >> }],
           [kind |-> "seq", alts |-> { << {"scientists"}, {"agree", "found"} >> }],
           [kind |-> "seq", alts |-> { << {"the"}, {"literature"} >> }] >>
      [] category = "upamana" ->
        << [kind |-> "seq", alts |-> { << {"like"} >> }],
           [kind |-> "seq", alts |-> { << {"similar"}, {"to"} >> }],
           [kind |-> "seq", alts |-> { << {"just"}, {"as"} >> }],
           [kind |-> "seq", alts |-> { << {"analogous"}, {"to"} >> }],
           [kind |-> "seq", alts |-> { << {"compare"}, {"to"} >> }],
           [kind |-> "seq", alts |-> { << {"resembles"} >> }],
           [kind |-> "seq", alts |-> { << {"in"}, {"the"}, {"same"}, {"way"} >> }] >>

\* self.reasoning_patterns[element_type]
ReasoningPatterns(category) ==
    CASE category = "premise" ->
        << [kind |-> "seq", alts |-> { << {"because"} >>, << {"since"} >>, << {"given"}, {"that"} >>, << {"as"} >> }],
           [kind |-> "seq", alts |-> { << {"the"}, {"fact"}, {"that", "is"} >> }] >>
      [] category = "inference" ->
        << [kind |-> "seq", alts |-> { << {"therefore", "thus", "hence", "consequently"} >> }],
           [kind |-> "seq", alts |-> { << {"it"}, {"follows"}, {"that"} >> }],
           [kind |-> "seq", alts |-> { << {"this"}, {"means", "implies"} >> }] >>
      [] category = "evidence" ->
        << [kind |-> "seq", alts |-> { << {"studies", "research", "data", "evidence"}, {"show", "suggest", "indicate"} >> }],
           [kind |-> "seq", alts |-> { << {"according"}, {"to"} >> }] >>
      [] category = "conclusion" ->
        << [kind |-> "seq", alts |-> { << {"in"}, {"conclusion"} >>, << {"ultimately"} >>, << {"finally"} >> }],
           [kind |-> "seq", alts |-> { << {"we"}, {"must", "should"} >>, << {"we"}, {"need"}, {"to"} >> }] >>

\* self.value_keywords[tag]
ValueKeywords(tag) ==
    CASE tag = "justice_and_fairness" ->
        << "justice", "fair", "fairness", "equal", "equality", "rights", "deserve", "ought", "should", "moral", "ethical", "unjust" >>
      [] tag = "health_and_wellbeing" ->
        << "health", "wellbeing", "wellness", "care", "medical", "hospital", "patient", "illness", "disease", "treatment", "safety" >>
      [] tag = "economic_security" ->
        << "job", "employment", "economy", "economic", "business", "income", "financial", "money", "wage", "salary", "afford", "cost" >>
      [] tag = "family_protection" ->
        << "family", "children", "kids", "parents", "home", "household", "father", "mother", "son", "daughter", "protect" >>
      [] tag = "community_wellbeing" ->
        << "community", "society", "neighbor", "local", "town", "city", "people", "citizens", "public", "collective" >>
      [] tag = "progress_and_innovation" ->
        << "innovation", "progress", "technology", "future", "advance", "develop", "improve", "growth", "modern", "new" >>
      [] tag = "freedom_and_autonomy" ->
        << "freedom", "liberty", "choice", "autonomy", "independent", "free", "choose", "decide", "control" >>

\* The keywords k for which \bk\w*\b matches the word w: the keywords that
\* are a prefix of w.
KeywordPrefixes(w) ==
    CASE w = "community" -> {"community"}
      [] w = "deserve" -> {"deserve"}
      [] w = "family" -> {"family"}
      [] w = "freedom" -> {"freedom", "free"}
      [] w = "healthcare" -> {"health"}
      [] w = "improves" -> {"improve"}
      [] w = "innovation" -> {"innovation"}
      [] w = "jobs" -> {"job"}
      [] w = "medical" -> {"medical"}
      [] w = "should" -> {"should"}
      [] w = "treatment" -> {"treatment"}
      [] OTHER -> {}

\* len(w)
WordLen(w) ==
    CASE w \in {".", "a", "i"} -> 1
      [] w \in {"is", "my", "on", "to", "we"} -> 2
      [] w \in {"act", "how"} -> 3
      [] w \in {"have", "jobs", "like", "must", "need", "seen", "show"} -> 4
      [] w \in {"drive", "helps", "human", "lives", "right"} -> 5
      [] w \in {"access", "family", "reform", "should"} -> 6
      [] w \in {"because", "depends", "deserve", "freedom", "markets", "medical", "studies"} -> 7
      [] w \in {"exercise", "families", "improves"} -> 8
      [] w \in {"community", "firsthand", "therefore", "treatment"} -> 9
      [] w \in {"healthcare", "innovation"} -> 10
      [] OTHER -> 0

\* Texts of the repository's own test blocks and of the scenario of section 8.
TextAlice ==
    << "studies", "show", "healthcare", "improves", "lives", ".",
       "therefore", "we", "need", "reform", "." >>

TextBob ==
    << "i", "have", "seen", "how", "markets", "drive", "innovation", ".",
       "my", "family", "depends", "on", "jobs", "." >>

TextScenario ==
    << "studies", "show", "exercise", "helps", ".", "therefore", "we",
       "should", "act", "." >>

TextRights ==
    << "healthcare", "is", "a", "human", "right", ".", "families",
       "deserve", "access", "to", "medical", "treatment", "." >>

\* Sentences a transcription is made of: two of more than 50 characters and
\* one of fewer.
SentenceReform ==
    << "studies", "show", "healthcare", "improves", "lives", "therefore", "we",
       "need", "reform" >>

SentenceMarkets ==
    << "i", "have", "seen", "how", "markets", "drive", "innovation", "my",
       "family", "depends", "on", "jobs" >>

SentenceShort == << "studies", "show", "exercise", "helps" >>

Sentences == { SentenceReform, SentenceMarkets, SentenceShort }

----------------------------------------------------------------------------
(* Sets of strings.  CPython iterates a small set by hash slot; the slot of *)
(* a string is fixed by the process's hash seed.  HashSlot is a stand-in:   *)
(* each seed in 1..6 gives a different bijection of the seven tags onto     *)
(* slots, every one of which a real seed can produce.                       *)

HashSlot(v, seed) == (IndexOf(Tags, v) * seed) % 7

\* list(S), or "for x in S"
SetToList(S, seed) ==
    [i \in 1..Cardinality(S) |->
        CHOOSE x \in S :
            Cardinality({y \in S : HashSlot(y, seed) < HashSlot(x, seed)}) = i - 1]

----------------------------------------------------------------------------
(* HiddenAgreementDetector *)

IsRelated(val_a, val_b) ==
    \/ Contains(RelatedValues(val_b), val_a)
    \/ Contains(RelatedValues(val_a), val_b)

\* The body of the nested loop, for the k-th (val_a, val_b) of the product.
RECURSIVE ExpandShared(_, _, _, _)
ExpandShared(shared, la, lb, k) ==
    IF k > Len(la) * Len(lb) THEN shared
    ELSE LET val_a == la[((k - 1) \div Len(lb)) + 1]
             val_b == lb[((k - 1) % Len(lb)) + 1]
             s1 == IF IsRelated(val_a, val_b) /\ ~Contains(shared, val_a)
                   THEN Append(shared, val_a) ELSE shared
             s2 == IF IsRelated(val_a, val_b) /\ ~Contains(s1, val_b)
                   THEN Append(s1, val_b) ELSE s1
         IN  ExpandShared(s2, la, lb, k + 1)

\* list(values_a & values_b)
DirectOverlap(analysis_a, analysis_b, seed) ==
    LET values_a == Range(Get(Get(analysis_a, "values", << >>), "top_values", << >>))
        values_b == Range(Get(Get(analysis_b, "values", << >>), "top_values", << >>))
    IN  SetToList(values_a \cap values_b, seed)

\* A variant that collects the related tags in a list of their own and
\* puts it after the direct overlap.
SharedUncappedConcatenated(analysis_a, analysis_b, seed) ==
    LET values_a == Range(Get(Get(analysis_a, "values", << >>), "top_values", << >>))
        values_b == Range(Get(Get(analysis_b, "values", << >>), "top_values", << >>))
    IN  DirectOverlap(analysis_a, analysis_b, seed)
        \o ExpandShared(<< >>, SetToList(values_a, seed), SetToList(values_b, seed), 1)

\* shared before the cap
SharedUncapped(analysis_a, analysis_b, seed) ==
    LET values_a == Range(Get(Get(analysis_a, "values", << >>), "top_values", << >>))
        values_b == Range(Get(Get(analysis_b, "values", << >>), "top_values", << >>))
    IN  ExpandShared(DirectOverlap(analysis_a, analysis_b, seed),
                     SetToList(values_a, seed), SetToList(values_b, seed), 1)

\* A variant that caps with shared[-5:].
FindSharedValuesTail(analysis_a, analysis_b, seed) ==
    LET shared == SharedUncapped(analysis_a, analysis_b, seed)
    IN  SubSeq(shared, Max(1, Len(shared) - SharedCap + 1), Len(shared))

FindSharedValues(analysis_a, analysis_b, seed) ==
    Take(SharedUncapped(analysis_a, analysis_b, seed), SharedCap)

\* "not pramana": the empty string is falsy
Falsy(p) == p = ""

\* A variant that compares for equality before it looks for a missing source.
ComparePramanaEqualFirst(analysis_a, analysis_b) ==
    LET pramana_a == Get(Get(analysis_a, "pramana", << >>), "dominant_pramana", "")
        pramana_b == Get(Get(analysis_b, "pramana", << >>), "dominant_pramana", "")
    IN  IF pramana_a = pramana_b THEN 90
        ELSE IF Falsy(pramana_a) \/ Falsy(pramana_b) THEN 30
        ELSE IF {pramana_a, pramana_b} \in CompatiblePairs THEN 60
        ELSE 30

ComparePramana(analysis_a, analysis_b) ==
    LET pramana_a == Get(Get(analysis_a, "pramana", << >>), "dominant_pramana", "")
        pramana_b == Get(Get(analysis_b, "pramana", << >>), "dominant_pramana", "")
    IN  IF Falsy(pramana_a) \/ Falsy(pramana_b) THEN 30
        ELSE IF pramana_a = pramana_b THEN 90
        ELSE IF {pramana_a, pramana_b} \in CompatiblePairs THEN 60
        ELSE 30

\* A variant that gives two speakers without a chain no compatibility at all.
CompareReasoningNoFloor(analysis_a, analysis_b) ==
    LET has_chain_a == Len(Get(Get(analysis_a, "reasoning", << >>), "chain", << >>)) > 0
        has_chain_b == Len(Get(Get(analysis_b, "reasoning", << >>), "chain", << >>)) > 0
    IN  IF has_chain_a /\ has_chain_b THEN 70
        ELSE IF has_chain_a \/ has_chain_b THEN 40
        ELSE 0

\* A variant whose first branch tests "or".
CompareReasoningEither(analysis_a, analysis_b) ==
    LET has_chain_a == Len(Get(Get(analysis_a, "reasoning", << >>), "chain", << >>)) > 0
        has_chain_b == Len(Get(Get(analysis_b, "reasoning", << >>), "chain", << >>)) > 0
    IN  IF has_chain_a \/ has_chain_b THEN 70
        ELSE 20

CompareReasoning(analysis_a, analysis_b) ==
    LET has_chain_a == Len(Get(Get(analysis_a, "reasoning", << >>), "chain", << >>)) > 0
        has_chain_b == Len(Get(Get(analysis_b, "reasoning", << >>), "chain", << >>)) > 0
    IN  IF has_chain_a /\ has_chain_b THEN 70
        ELSE IF has_chain_a \/ has_chain_b THEN 40
        ELSE 20

\* A variant without the min(..., 1.0).
CalculateAgreementStrengthUnclamped(shared_values, pramana_similarity, reasoning_compatibility) ==
    (Len(shared_values) * 6000) \div 3
    + pramana_similarity * 25
    + reasoning_compatibility * 15

\* A variant without the reasoning term.
CalculateAgreementStrengthNoReasoning(shared_values, pramana_similarity, reasoning_compatibility) ==
    LET value_thirds == Min(Len(shared_values), 3)
    IN  (value_thirds * 6000) \div 3 + pramana_similarity * 25

\* value_score = min(len/3.0, 1.0), held in thirds; the result in ten-thousandths
CalculateAgreementStrength(shared_values, pramana_similarity, reasoning_compatibility) ==
    LET value_thirds == Min(Len(shared_values), 3)
    IN  (value_thirds * 6000) \div 3
        + pramana_similarity * 25
        + reasoning_compatibility * 15

\* The insight text, as the template chosen and the data put into it.
GenerateInsight(person_a, person_b, shared_values, analysis_a, analysis_b, pramana_similarity) ==
    IF Len(shared_values) = 0
    THEN [ template  |-> "similar_epistemological_approaches",
           person_a  |-> person_a,
           person_b  |-> person_b,
           pramana_a |-> Get(Get(analysis_a, "pramana", << >>),
                             "dominant_pramana", "different sources"),
           pramana_b |-> Get(Get(analysis_b, "pramana", << >>),
                             "dominant_pramana", "different sources") ]
    ELSE [ template  |-> "both_people_value",
           form      |-> IF Len(shared_values) = 1 THEN "single"
                         ELSE IF Len(shared_values) = 2 THEN "pair"
                         ELSE "list_with_and",
           values    |-> shared_values,
           framing   |-> IF pramana_similarity > 70 THEN "same_way_of_knowing"
                         ELSE "bridging_this_gap",
           person_a  |-> person_a,
           person_b  |-> person_b,
           pramana_a |-> Get(Get(analysis_a, "pramana", << >>),
                             "dominant_pramana", "unknown"),
           pramana_b |-> Get(Get(analysis_b, "pramana", << >>),
                             "dominant_pramana", "unknown"),
           concern   |-> shared_values[1] ]

\* The agreement dict of one pair.
PairAgreement(entry_a, entry_b, seed) ==
    LET shared_values == FindSharedValues(entry_a.analysis, entry_b.analysis, seed)
        pramana_similarity == ComparePramana(entry_a.analysis, entry_b.analysis)
        reasoning_compatibility == CompareReasoning(entry_a.analysis, entry_b.analysis)
    IN  [ person_a |-> entry_a.speaker,
          person_b |-> entry_b.speaker,
          shared_values |-> shared_values,
          agreement_strength |->
              CalculateAgreementStrength(shared_values, pramana_similarity,
                                         reasoning_compatibility),
          pramana_similarity |-> pramana_similarity,
          reasoning_compatibility |-> reasoning_compatibility,
          dialogue_insight |->
              GenerateInsight(entry_a.speaker, entry_b.speaker, shared_values,
                              entry_a.analysis, entry_b.analysis,
                              pramana_similarity) ]

\* A variant that asks for both conditions.
QualifiesBoth(agreement) ==
    /\ agreement.agreement_strength > AgreementThreshold
    /\ Len(agreement.shared_values) > 0

\* if agreement_strength > self.agreement_threshold or len(shared_values) > 0
Qualifies(agreement) ==
    \/ agreement.agreement_strength > AgreementThreshold
    \/ Len(agreement.shared_values) > 0

\* A variant that also pairs an index with itself, as
\* combinations_with_replacement does.
Combinations2WithSelf(n) ==
    LET pairs == {<<i, j>> : i \in 1..n, j \in 1..n}
        ordered == {p \in pairs : p[1] <= p[2]}
        Before(p, q) == p[1] < q[1] \/ (p[1] = q[1] /\ p[2] < q[2])
    IN  [k \in 1..Cardinality(ordered) |->
            CHOOSE p \in ordered :
                Cardinality({q \in ordered : Before(q, p)}) = k - 1]

\* combinations(range(1..n), 2), in its order
Combinations2(n) ==
    LET pairs == {<<i, j>> : i \in 1..n, j \in 1..n}
        ordered == {p \in pairs : p[1] < p[2]}
        Before(p, q) == p[1] < q[1] \/ (p[1] = q[1] /\ p[2] < q[2])
    IN  [k \in 1..Cardinality(ordered) |->
            CHOOSE p \in ordered :
                Cardinality({q \in ordered : Before(q, p)}) = k - 1]

\* A variant that is not stable: x goes before the elements equal to it.
InsertBeforeEqual(sorted, x) ==
    LET later == {i \in 1..Len(sorted) :
                     sorted[i].agreement_strength <= x.agreement_strength}
        at == IF later = {} THEN Len(sorted) + 1
              ELSE CHOOSE i \in later : \A j \in later : i <= j
    IN  SubSeq(sorted, 1, at - 1) \o << x >> \o SubSeq(sorted, at, Len(sorted))

\* One step of list.sort(key=agreement_strength, reverse=True): x goes after
\* every element that does not sort behind it.
InsertByStrength(sorted, x) ==
    LET later == {i \in 1..Len(sorted) :
                     sorted[i].agreement_strength < x.agreement_strength}
        at == IF later = {} THEN Len(sorted) + 1
              ELSE CHOOSE i \in later : \A j \in later : i <= j
    IN  SubSeq(sorted, 1, at - 1) \o << x >> \o SubSeq(sorted, at, Len(sorted))

RECURSIVE SortByStrength(_, _)
SortByStrength(list, k) ==
    IF k = 0 THEN << >>
    ELSE InsertByStrength(SortByStrength(list, k - 1), list[k])

\* The loop over the pairs: the agreements appended, before the sort.
RECURSIVE CollectAgreements(_, _, _, _)
CollectAgreements(analyses, pairs, k, seed) ==
    IF k = 0 THEN << >>
    ELSE LET before == CollectAgreements(analyses, pairs, k - 1, seed)
             agreement == PairAgreement(analyses[pairs[k][1]],
                                        analyses[pairs[k][2]], seed)
         IN  IF Qualifies(agreement) THEN Append(before, agreement) ELSE before

DetectAgreements(analyses, seed) ==
    LET pairs == Combinations2(Len(analyses))
        agreements == CollectAgreements(analyses, pairs, Len(pairs), seed)
    IN  SortByStrength(agreements, Len(agreements))

\* A variant with the first two sentences exchanged.
FallbackRecommendationsReordered ==
    << [kind |-> "try_identifying_shared_experiences"],
       [kind |-> "no_clear_hidden_agreements"],
       [kind |-> "consider_a_neutral_facilitator"] >>

\* The fallback of generate_dialogue_recommendations([]).
FallbackRecommendations ==
    << [kind |-> "no_clear_hidden_agreements"],
       [kind |-> "try_identifying_shared_experiences"],
       [kind |-> "consider_a_neutral_facilitator"] >>

RECURSIVE AllSharedValues(_, _)
AllSharedValues(agreements, k) ==
    IF k = 0 THEN {}
    ELSE AllSharedValues(agreements, k - 1) \cup Range(agreements[k].shared_values)

\* A variant that asks for more than one pair of similar sources.
GenerateDialogueRecommendationsMoreThanOne(agreements, seed) ==
    IF Len(agreements) = 0 THEN FallbackRecommendations
    ELSE
        LET strongest == agreements[1]
            all_shared_values == AllSharedValues(agreements, Len(agreements))
            high_pramana_similarity ==
                SelectSeq(agreements, LAMBDA a : a.pramana_similarity > 60)
            r1 == IF strongest.agreement_strength > 6000
                  THEN << [kind |-> "strong_agreement",
                           person_a |-> strongest.person_a,
                           person_b |-> strongest.person_b,
                           values |-> Take(strongest.shared_values, 2)] >>
                  ELSE << >>
            r2 == IF Cardinality(all_shared_values) >= 3
                  THEN << [kind |-> "multiple_shared_values",
                           values |-> Take(SetToList(all_shared_values, seed), 3)] >>
                  ELSE << >>
            r3 == IF Len(high_pramana_similarity) > 1
                  THEN << [kind |-> "similar_reasoning_methods",
                           count |-> Len(high_pramana_similarity)] >>
                  ELSE << >>
            r4 == IF Len(agreements) > 3
                  THEN << [kind |-> "more_common_ground"] >>
                  ELSE << >>
        IN  r1 \o r2 \o r3 \o r4

\* Each recommendation as the template chosen and the data put into it.
GenerateDialogueRecommendations(agreements, seed) ==
    IF Len(agreements) = 0 THEN FallbackRecommendations
    ELSE
        LET strongest == agreements[1]
            all_shared_values == AllSharedValues(agreements, Len(agreements))
            high_pramana_similarity ==
                SelectSeq(agreements, LAMBDA a : a.pramana_similarity > 60)
            r1 == IF strongest.agreement_strength > 6000
                  THEN << [kind |-> "strong_agreement",
                           person_a |-> strongest.person_a,
                           person_b |-> strongest.person_b,
                           values |-> Take(strongest.shared_values, 2)] >>
                  ELSE << >>
            r2 == IF Cardinality(all_shared_values) >= 3
                  THEN << [kind |-> "multiple_shared_values",
                           values |-> Take(SetToList(all_shared_values, seed), 3)] >>
                  ELSE << >>
            r3 == IF Len(high_pramana_similarity) > 0
                  THEN << [kind |-> "similar_reasoning_methods",
                           count |-> Len(high_pramana_similarity)] >>
                  ELSE << >>
            r4 == IF Len(agreements) > 3
                  THEN << [kind |-> "more_common_ground"] >>
                  ELSE << >>
        IN  r1 \o r2 \o r3 \o r4

----------------------------------------------------------------------------
(* Matching *)

RECURSIVE SumSeq(_, _)
SumSeq(s, k) == IF k = 0 THEN 0 ELSE SumSeq(s, k - 1) + s[k]

\* Whether the word sequence alt matches the text at word i.
AltMatchesAt(words, i, alt) ==
    /\ i + Len(alt) - 1 <= Len(words)
    /\ \A j \in 1..Len(alt) : words[i + j - 1] \in alt[j]

\* The number of words a regex consumes at word i, 0 when it does not match.
MatchLenAt(words, i, pattern) ==
    LET fits == {alt \in pattern.alts : AltMatchesAt(words, i, alt)}
    IN  IF fits = {} THEN 0 ELSE Len(CHOOSE alt \in fits : TRUE)

\* re.finditer / re.findall: the starts of the non-overlapping matches, left
\* to right, from word i on.
RECURSIVE SeqMatchStarts(_, _, _)
SeqMatchStarts(words, pattern, i) ==
    IF i > Len(words) THEN << >>
    ELSE LET n == MatchLenAt(words, i, pattern)
         IN  IF n > 0 THEN << i >> \o SeqMatchStarts(words, pattern, i + n)
             ELSE SeqMatchStarts(words, pattern, i + 1)

\* "head .+ tail": head, a space, at least one character, a space, tail.  The
\* greedy .+ runs to the last tail of the text, so there is at most one match.
GapMatchStarts(words, pattern) ==
    LET heads == {i \in 1..Len(words) :
                     /\ words[i] = pattern.head
                     /\ i + 1 <= Len(words)
                     /\ words[i + 1] \notin Punctuation
                     /\ \E j \in (i + 2)..Len(words) : words[j] = pattern.tail}
    IN  IF heads = {} THEN << >>
        ELSE << CHOOSE i \in heads : \A h \in heads : i <= h >>

MatchStarts(words, pattern) ==
    IF pattern.kind = "gap" THEN GapMatchStarts(words, pattern)
    ELSE SeqMatchStarts(words, pattern, 1)

\* match.start(): the character offset of word i.
RECURSIVE Offset(_, _)
Offset(words, i) ==
    IF i = 1 THEN 0
    ELSE Offset(words, i - 1) + WordLen(words[i - 1])
         + (IF words[i] \in Punctuation THEN 0 ELSE 1)

\* match.group(): the words matched at i.
MatchText(words, i, pattern) ==
    IF pattern.kind = "gap"
    THEN SubSeq(words, i,
                CHOOSE j \in i..Len(words) :
                    /\ words[j] = pattern.tail
                    /\ \A l \in (j + 1)..Len(words) : words[l] # pattern.tail)
    ELSE SubSeq(words, i, i + MatchLenAt(words, i, pattern) - 1)

----------------------------------------------------------------------------
(* PramanaClassifier *)

\* scores[pramana] after the counting loop
PramanaScore(text, pramana) ==
    LET patterns == PramanaPatterns(pramana)
        counts == [k \in 1..Len(patterns) |-> Len(MatchStarts(text, patterns[k]))]
    IN  SumSeq(counts, Len(counts))

\* A variant of max that keeps the last of equal keys.
LastMaxKey(keys, scores) ==
    keys[CHOOSE i \in 1..Len(keys) :
            /\ \A j \in 1..Len(keys) : scores[keys[j]] <= scores[keys[i]]
            /\ \A j \in (i + 1)..Len(keys) : scores[keys[j]] < scores[keys[i]]]

\* max(scores, key=scores.get): the first key, in dict order, of the largest
\* score.
MaxKey(keys, scores) ==
    keys[CHOOSE i \in 1..Len(keys) :
            /\ \A j \in 1..Len(keys) : scores[keys[j]] <= scores[keys[i]]
            /\ \A j \in 1..(i - 1) : scores[keys[j]] < scores[keys[i]]]

\* A variant that divides by the sum itself, without max(..., 1).
ClassifyPramanaUnguarded(text) ==
    LET scores == [p \in Range(Pramanas) |-> PramanaScore(text, p)]
        total == SumSeq([k \in 1..Len(Pramanas) |-> scores[Pramanas[k]]], Len(Pramanas))
        dominant == IF total = 0 THEN "pratyaksha" ELSE MaxKey(Pramanas, scores)
    IN  [ dominant_pramana |-> dominant,
          scores |-> scores,
          confidence |-> [num |-> scores[dominant], den |-> total] ]

\* confidence is the fraction num / den.
ClassifyPramana(text) ==
    LET scores == [p \in Range(Pramanas) |-> PramanaScore(text, p)]
        total == SumSeq([k \in 1..Len(Pramanas) |-> scores[Pramanas[k]]], Len(Pramanas))
        dominant == IF total = 0 THEN "pratyaksha" ELSE MaxKey(Pramanas, scores)
    IN  [ dominant_pramana |-> dominant,
          scores |-> scores,
          confidence |-> [num |-> scores[dominant], den |-> Max(total, 1)] ]

----------------------------------------------------------------------------
(* ValueExtractor *)

\* len(re.findall(r'\b' + keyword + r'\w*\b', text_lower))
KeywordCount(text, keyword) ==
    Cardinality({i \in 1..Len(text) : keyword \in KeywordPrefixes(text[i])})

ValueScore(text, tag) ==
    LET keywords == ValueKeywords(tag)
        counts == [k \in 1..Len(keywords) |-> KeywordCount(text, keywords[k])]
    IN  SumSeq(counts, Len(counts))

\* A variant that puts a tag before the tags of equal score.
InsertByScoreBeforeEqual(sorted, tag, scores) ==
    LET later == {i \in 1..Len(sorted) : scores[sorted[i]] <= scores[tag]}
        at == IF later = {} THEN Len(sorted) + 1
              ELSE CHOOSE i \in later : \A j \in later : i <= j
    IN  SubSeq(sorted, 1, at - 1) \o << tag >> \o SubSeq(sorted, at, Len(sorted))

\* sorted(scores.items(), key=lambda x: x[1], reverse=True): one insertion.
InsertByScore(sorted, tag, scores) ==
    LET later == {i \in 1..Len(sorted) : scores[sorted[i]] < scores[tag]}
        at == IF later = {} THEN Len(sorted) + 1
              ELSE CHOOSE i \in later : \A j \in later : i <= j
    IN  SubSeq(sorted, 1, at - 1) \o << tag >> \o SubSeq(sorted, at, Len(sorted))

RECURSIVE SortByScore(_, _, _)
SortByScore(tags, scores, k) ==
    IF k = 0 THEN << >>
    ELSE InsertByScore(SortByScore(tags, scores, k - 1), tags[k], scores)

ExtractValues(text) ==
    LET scores == [t \in TagSet |-> ValueScore(text, t)]
        sorted_values == SortByScore(Tags, scores, Len(Tags))
    IN  [ top_values |-> Take(SelectSeq(sorted_values, LAMBDA t : scores[t] > 0), 5),
          scores |-> scores ]

----------------------------------------------------------------------------
(* TarkaEngine *)

ElementTypes == << "premise", "inference", "evidence", "conclusion" >>

\* The chain entries of one pattern, in match order.
PatternEntries(text, element_type, pattern) ==
    LET starts == MatchStarts(text, pattern)
    IN  [k \in 1..Len(starts) |->
            [ type |-> element_type,
              position |-> Offset(text, starts[k]),
              text |-> MatchText(text, starts[k], pattern) ]]

RECURSIVE TypeEntries(_, _, _)
TypeEntries(text, element_type, k) ==
    IF k = 0 THEN << >>
    ELSE TypeEntries(text, element_type, k - 1)
         \o PatternEntries(text, element_type, ReasoningPatterns(element_type)[k])

\* The chain as the loops append to it.
RECURSIVE CollectChain(_, _)
CollectChain(text, k) ==
    IF k = 0 THEN << >>
    ELSE CollectChain(text, k - 1)
         \o TypeEntries(text, ElementTypes[k], Len(ReasoningPatterns(ElementTypes[k])))

\* chain.sort(key=lambda x: x['position']): one insertion.
InsertByPosition(sorted, x) ==
    LET later == {i \in 1..Len(sorted) : sorted[i].position > x.position}
        at == IF later = {} THEN Len(sorted) + 1
              ELSE CHOOSE i \in later : \A j \in later : i <= j
    IN  SubSeq(sorted, 1, at - 1) \o << x >> \o SubSeq(sorted, at, Len(sorted))

RECURSIVE SortByPosition(_, _)
SortByPosition(chain, k) ==
    IF k = 0 THEN << >>
    ELSE InsertByPosition(SortByPosition(chain, k - 1), chain[k])

\* A variant that leaves the chain in the order the loops collected it.
AnalyzeReasoningUnsorted(text) ==
    LET chain == CollectChain(text, Len(ElementTypes))
    IN  [ chain |-> chain, has_logical_structure |-> Len(chain) > 0 ]

AnalyzeReasoning(text) ==
    LET collected == CollectChain(text, Len(ElementTypes))
        chain == SortByPosition(collected, Len(collected))
    IN  [ chain |-> chain, has_logical_structure |-> Len(chain) > 0 ]

----------------------------------------------------------------------------
(* SAMVADAnalyzer *)

\* A variant that keeps the value a key already has, as setdefault does.
DictSetKeepFirst(d, key, value) ==
    IF \E i \in 1..Len(d) : d[i].speaker = key
    THEN d
    ELSE Append(d, [speaker |-> key, analysis |-> value])

\* d[key] = value on a dict kept in insertion order
DictSet(d, key, value) ==
    IF \E i \in 1..Len(d) : d[i].speaker = key
    THEN [i \in 1..Len(d) |->
             IF d[i].speaker = key THEN [speaker |-> key, analysis |-> value]
             ELSE d[i]]
    ELSE Append(d, [speaker |-> key, analysis |-> value])

\* The three module calls of the loop body on one text.
AnalyzeText(text) ==
    [ pramana   |-> ClassifyPramana(text),
      values    |-> ExtractValues(text),
      reasoning |-> AnalyzeReasoning(text),
      text      |-> text ]

\* The texts the requests of the full pipeline are made of: the empty
\* text, the two of the analyzer's own test block and a third.
Corpus == { << >>, TextAlice, TextBob, TextScenario }

\* AnalyzeText is a pure function of the text; its values on the corpus,
\* computed once.
CorpusAnalyses == [text \in Corpus |-> AnalyzeText(text)]

\* The same for the sentences of the transcriptions.
SentenceAnalyses == [text \in Sentences |-> AnalyzeText(text)]

\* individual_analyses[speaker] of one narrative
AnalyzeNarrative(narrative) ==
    IF narrative.text \in Corpus THEN CorpusAnalyses[narrative.text]
    ELSE IF narrative.text \in Sentences THEN SentenceAnalyses[narrative.text]
    ELSE AnalyzeText(narrative.text)

\* The loop of analyze_dialogue over the first k narratives.
RECURSIVE AnalyzeAll(_, _)
AnalyzeAll(narrs, k) ==
    IF k = 0 THEN << >>
    ELSE DictSet(AnalyzeAll(narrs, k - 1), narrs[k].speaker, AnalyzeNarrative(narrs[k]))

\* The position of the first narrative of the speaker, 'N/A' without one.
ReportPosition(narrs, speaker) ==
    LET mine == {i \in 1..Len(narrs) : narrs[i].speaker = speaker}
    IN  IF mine = {} THEN << "N/A" >>
        ELSE narrs[CHOOSE i \in mine : \A j \in mine : i <= j].position

\* The report, as its lines' data.  The strength is kept as the number the
\* line formats.
GenerateReport(results, seed) ==
    LET num_speakers == Len(results.narratives)
        analyses == results.individual_analyses
        agreements == results.hidden_agreements
    IN  [ total_speakers |-> num_speakers,
          agreements_found |-> Len(agreements),
          dialogue_connections |-> (num_speakers * (num_speakers - 1)) \div 2,
          speakers |->
              [i \in 1..Len(analyses) |->
                  [ speaker |-> analyses[i].speaker,
                    position |-> ReportPosition(results.narratives, analyses[i].speaker),
                    knowledge_source |->
                        Get(analyses[i].analysis.pramana, "dominant_pramana", "unknown"),
                    top_values |->
                        Take(Get(analyses[i].analysis.values, "top_values", << >>), 3) ]],
          agreements_section |-> Len(agreements) > 0,
          agreements |->
              [k \in 1..Len(agreements) |->
                  [ between |-> << agreements[k].person_a, agreements[k].person_b >>,
                    shared_values |->
                        IF Len(agreements[k].shared_values) > 0
                        THEN agreements[k].shared_values
                        ELSE << "None explicit" >>,
                    agreement_strength |-> agreements[k].agreement_strength,
                    insight |-> agreements[k].dialogue_insight ]],
          recommendations |-> GenerateDialogueRecommendations(agreements, seed) ]

----------------------------------------------------------------------------
(* Direct calls of detect_agreements, as the module's own test block makes  *)
(* them: the caller writes the analyses mapping by hand.                    *)

\* A hand-written analysis.  dominant "<absent>" leaves the key out.
MkAnalysis(dominant, top_values, chain) ==
    [ pramana   |-> IF dominant = "<absent>" THEN << >>
                    ELSE [dominant_pramana |-> dominant],
      values    |-> [top_values |-> top_values],
      reasoning |-> [chain |-> chain] ]

\* The elements of S in taxonomy order.
InTagOrder(S) == SelectSeq(Tags, LAMBDA t : t \in S)

\* Every top_values list a ValueProfile can hold, up to order.
TopValueLists == {InTagOrder(S) : S \in {T \in SUBSET TagSet : Cardinality(T) <= 5}}

\* A few top_values lists of every length 0..5.
LadderTags ==
    << "health_and_wellbeing", "family_protection", "justice_and_fairness",
       "economic_security", "community_wellbeing" >>

Ladder == {SubSeq(LadderTags, 1, k) : k \in 0..5}

Dominants == Range(Pramanas) \cup {"", "<absent>"}

Chains == { << >>, << [type |-> "premise", position |-> 0, text |-> "because"] >> }

SpeakerNames == << "Alice", "Bob", "Carol" >>

HashSeeds == {1, 3}

\* Pairs whose top_values range over everything a ValueProfile can hold.
ValueRichPairs ==
    { << [speaker |-> "Alice",
          analysis |-> MkAnalysis("anumana", ta, Chains_a)],
         [speaker |-> "Bob",
          analysis |-> MkAnalysis(db, tb, << >>)] >> :
        ta \in TopValueLists, tb \in TopValueLists,
        db \in {"upamana"},
        Chains_a \in {c \in Chains : Len(c) > 0} }

\* Pairs whose dominant sources and chains range over every combination.
EpistemicRichPairs ==
    { << [speaker |-> "Alice", analysis |-> MkAnalysis(da, ta, ca)],
         [speaker |-> "Bob",   analysis |-> MkAnalysis(db, tb, cb)] >> :
        da \in Dominants, db \in Dominants, ta \in Ladder, tb \in Ladder,
        ca \in Chains, cb \in Chains }

TripleProfiles ==
    { MkAnalysis(d, t, c) :
        d \in {"pratyaksha", "upamana", ""},
        t \in {SubSeq(LadderTags, 1, k) : k \in {0, 1, 3}},
        c \in Chains }

\* Mappings of 0, 1 and 3 speakers over a small pool of analyses.
SmallMappings ==
    { << >> }
    \cup { << [speaker |-> "Alice", analysis |-> a] >> : a \in TripleProfiles }
    \cup { << [speaker |-> "Alice", analysis |-> a],
              [speaker |-> "Bob",   analysis |-> b],
              [speaker |-> "Carol", analysis |-> c] >> :
            a \in TripleProfiles, b \in TripleProfiles, c \in TripleProfiles }

QuadProfiles ==
    { MkAnalysis(d, t, << >>) :
        d \in {"pratyaksha", "upamana"},
        t \in {SubSeq(LadderTags, 1, k) : k \in {0, 3}} }

\* Mappings of four speakers.
QuadMappings ==
    { << [speaker |-> "Alice", analysis |-> a],
         [speaker |-> "Bob",   analysis |-> b],
         [speaker |-> "Carol", analysis |-> c],
         [speaker |-> "Dave",  analysis |-> d] >> :
        a \in QuadProfiles, b \in QuadProfiles, c \in QuadProfiles, d \in QuadProfiles }

\* The tags no table entry relates to another tag of the taxonomy.
UnrelatedTags == {t \in TagSet : \A u \in TagSet : ~IsRelated(t, u)}

\* Pairs whose top_values are made of unrelated tags.
UnrelatedPairs ==
    { << [speaker |-> "Alice", analysis |-> MkAnalysis(da, InTagOrder(ta), ca)],
         [speaker |-> "Bob",   analysis |-> MkAnalysis(db, InTagOrder(tb), << >>)] >> :
        da \in {"sabda", "upamana"}, db \in {"sabda", "upamana"},
        ta \in SUBSET UnrelatedTags, tb \in SUBSET UnrelatedTags,
        ca \in Chains }

InitDetect ==
    /\ hashSeed \in HashSeeds
    /\ narratives = << >>
    /\ individual_analyses \in
           ValueRichPairs \cup EpistemicRichPairs \cup SmallMappings \cup QuadMappings
               \cup UnrelatedPairs
    /\ hidden_agreements = << >>
    /\ report = << >>
    /\ first = << >>
    /\ outcome = "none"
    /\ pc = "ready"
    /\ NoWebProcess

\* detector.detect_agreements(test_analyses)
Detect ==
    /\ pc = "ready"
    /\ hidden_agreements' = DetectAgreements(individual_analyses, hashSeed)
    /\ outcome' = "ok"
    /\ pc' = "detected"
    /\ UNCHANGED << hashSeed, narratives, individual_analyses, report, first >>
    /\ UNCHANGED webVars

\* The same call on the mapping written in the opposite order; the first
\* call's result is kept for comparison.
DetectReversed ==
    /\ pc = "detected"
    /\ first' = hidden_agreements
    /\ individual_analyses' = Reverse(individual_analyses)
    /\ hidden_agreements' = DetectAgreements(Reverse(individual_analyses), hashSeed)
    /\ outcome' = "ok"
    /\ pc' = "redetected"
    /\ UNCHANGED << hashSeed, narratives, report >>
    /\ UNCHANGED webVars

\* detector.generate_dialogue_recommendations(agreements) on the list the
\* call returned.
Recommend ==
    /\ pc = "detected"
    /\ report' = [recommendations |->
                      GenerateDialogueRecommendations(hidden_agreements, hashSeed)]
    /\ pc' = "recommended"
    /\ UNCHANGED << hashSeed, narratives, individual_analyses, hidden_agreements,
                    first, outcome >>
    /\ UNCHANGED webVars

NextDetect == Detect \/ DetectReversed \/ Recommend

SpecDetect == InitDetect /\ [][NextDetect]_vars

----------------------------------------------------------------------------
(* The analyser called on narratives, as the analyser's own test block and  *)
(* the /analyze route call it: analyze_dialogue, then generate_report.      *)

SpeakerSet == Range(SpeakerNames)

\* The longest list of narratives of a request.
MaxNarratives == 3

\* The longest text drawn word by word.
MaxTextLen == 4

Vocabulary ==
    { "firsthand", "therefore", "studies", "show", "like", "because", "we",
      "must", "should" }

\* The position a caller gives a narrative: an excerpt of its text.
Excerpt(text) == Take(text, 3)

MkNarrative(speaker, text) ==
    [speaker |-> speaker, text |-> text, position |-> Excerpt(text)]

NarrativePool == {MkNarrative(s, t) : s \in SpeakerSet, t \in Corpus}

NarrativeLists == UNION {[1..n -> NarrativePool] : n \in 0..MaxNarratives}

BoundedTexts == UNION {[1..n -> Vocabulary] : n \in 0..MaxTextLen}

Init ==
    /\ hashSeed \in HashSeeds
    /\ narratives \in NarrativeLists
    /\ individual_analyses = << >>
    /\ hidden_agreements = << >>
    /\ report = << >>
    /\ first = << >>
    /\ outcome = "none"
    /\ pc = "ready"
    /\ NoWebProcess

\* One narrative, its text any sequence of words of the vocabulary.  One
\* speaker makes no pair, so no set is iterated and one seed stands for all.
InitText ==
    /\ hashSeed = 1
    /\ narratives \in {<< MkNarrative("Alice", t) >> : t \in BoundedTexts \cup Corpus}
    /\ individual_analyses = << >>
    /\ hidden_agreements = << >>
    /\ report = << >>
    /\ first = << >>
    /\ outcome = "none"
    /\ pc = "ready"
    /\ NoWebProcess

\* results = analyzer.analyze_dialogue(narratives)
Analyze ==
    /\ pc = "ready"
    /\ individual_analyses' = AnalyzeAll(narratives, Len(narratives))
    /\ hidden_agreements' = DetectAgreements(individual_analyses', hashSeed)
    /\ outcome' = "ok"
    /\ pc' = "analyzed"
    /\ UNCHANGED << hashSeed, narratives, report, first >>
    /\ UNCHANGED webVars

\* report = analyzer.generate_report(results)
Report ==
    /\ pc = "analyzed"
    /\ report' = GenerateReport([ individual_analyses |-> individual_analyses,
                                  hidden_agreements |-> hidden_agreements,
                                  narratives |-> narratives ], hashSeed)
    /\ pc' = "reported"
    /\ UNCHANGED << hashSeed, narratives, individual_analyses, hidden_agreements,
                    first, outcome >>
    /\ UNCHANGED webVars

\* The same two calls on the same narratives once more, in this process or
\* in a new one (whose hash seed is its own); the earlier results are kept
\* for comparison.
RunAgain ==
    /\ pc = "reported"
    /\ \E seed \in HashSeeds :
          /\ hashSeed' = seed
          /\ individual_analyses' = AnalyzeAll(narratives, Len(narratives))
          /\ hidden_agreements' = DetectAgreements(individual_analyses', seed)
          /\ report' = GenerateReport([ individual_analyses |-> individual_analyses',
                                        hidden_agreements |-> hidden_agreements',
                                        narratives |-> narratives ], seed)
    /\ first' = [ individual_analyses |-> individual_analyses,
                  hidden_agreements |-> hidden_agreements,
                  report |-> report,
                  hashSeed |-> hashSeed ]
    /\ outcome' = "ok"
    /\ pc' = "reported_again"
    /\ UNCHANGED narratives
    /\ UNCHANGED webVars

Next == Analyze \/ Report \/ RunAgain

Spec == Init /\ [][Next]_vars

NextText == Analyze \/ Report

SpecText == InitText /\ [][NextText]_vars

\* The most times a text repeats one word.
MaxRepeat == 1

\* One word for each tag of the taxonomy, in its order; 'freedom' matches
\* two keywords of its tag, 'freedom' and 'free'.
ValueWords ==
    << "deserve", "medical", "jobs", "family", "community", "innovation", "freedom" >>

RECURSIVE Repeated(_, _)
Repeated(w, n) == IF n = 0 THEN << >> ELSE << w >> \o Repeated(w, n - 1)

\* The text that says ValueWords[i] times[i] times, for i up to k.
RECURSIVE ValueText(_, _)
ValueText(times, k) ==
    IF k = 0 THEN << >>
    ELSE ValueText(times, k - 1) \o Repeated(ValueWords[k], times[k])

ValueTexts == {ValueText(times, Len(ValueWords)) :
                  times \in [1..Len(ValueWords) -> 0..MaxRepeat]}

\* One narrative, its text made of value words.
InitValues ==
    /\ hashSeed = 1
    /\ narratives \in {<< MkNarrative("Alice", t) >> : t \in ValueTexts}
    /\ individual_analyses = << >>
    /\ hidden_agreements = << >>
    /\ report = << >>
    /\ first = << >>
    /\ outcome = "none"
    /\ pc = "ready"
    /\ NoWebProcess

SpecValues == InitValues /\ [][NextText]_vars

----------------------------------------------------------------------------
(* DatabaseManager.  A table is the list of its committed rows.  A session  *)
(* holds the objects added to it (pending) and the rows its transaction has *)
(* written but not committed (flushed).                                     *)

EmptyDatabase == [ dialogue_analyses |-> << >>, hidden_agreements |-> << >> ]

\* The rows of one table among the entries of a session.
RowsOf(entries, table) ==
    LET mine == SelectSeq(entries, LAMBDA e : e.table = table)
    IN  [i \in 1..Len(mine) |-> mine[i].row]

\* The integer primary key the database gives the next row of a table.
NextId(rows) ==
    IF Len(rows) = 0 THEN 1
    ELSE 1 + (CHOOSE m \in {rows[i].id : i \in 1..Len(rows)} :
                 \A i \in 1..Len(rows) : rows[i].id <= m)

\* session = self.Session()
NewSession == [ state |-> "open", pending |-> << >>, flushed |-> << >> ]

\* session.add(obj)
SessionAdd(session, table, row) ==
    [session EXCEPT !.pending = Append(@, [table |-> table, row |-> row])]

\* The INSERTs of a flush, in the order the objects were added; each row
\* gets its id.
RECURSIVE FlushRows(_, _, _)
FlushRows(flushed, pending, rows) ==
    IF Len(pending) = 0 THEN flushed
    ELSE LET e == Head(pending)
             id == NextId(rows[e.table] \o RowsOf(flushed, e.table))
         IN  FlushRows(Append(flushed, [table |-> e.table,
                                        row |-> [e.row EXCEPT !.id = id]]),
                       Tail(pending), rows)

\* session.flush()
SessionFlush(session, rows) ==
    [session EXCEPT !.flushed = FlushRows(session.flushed, session.pending, rows),
                    !.pending = << >>]

\* The tables after session.commit(): a flush, then the transaction's rows
\* become committed rows.
CommittedRows(session, rows) ==
    LET s == SessionFlush(session, rows)
    IN  [ dialogue_analyses |->
              rows.dialogue_analyses \o RowsOf(s.flushed, "dialogue_analyses"),
          hidden_agreements |->
              rows.hidden_agreements \o RowsOf(s.flushed, "hidden_agreements") ]

\* The session after session.commit(), and after session.rollback()
SessionDone(session) == [session EXCEPT !.pending = << >>, !.flushed = << >>]

\* session.close()
SessionClose(session) == [session EXCEPT !.state = "closed"]

\* The statements of save_analysis that talk to the database and can raise:
\* the flush, the commit, and the read of analysis.id after the commit (the
\* session expires its objects on commit, so the attribute is loaded again).
Faults == {"none", "flush", "commit", "refresh"}

\* DialogueAnalysis(...), before the database gives it an id
AnalysisRow(narrs, results, rendered, source_type) ==
    [ id |-> 0,
      num_speakers |-> Len(narrs),
      num_agreements |-> Len(results.hidden_agreements),
      source_type |-> source_type,
      narratives |-> narrs,
      analysis_results |-> results,
      report |-> rendered,
      user_session |-> "None" ]

\* HiddenAgreement(...)
AgreementRow(agreement, analysis_id) ==
    [ id |-> 0,
      analysis_id |-> analysis_id,
      person_a |-> agreement.person_a,
      person_b |-> agreement.person_b,
      shared_values |-> agreement.shared_values,
      agreement_strength |-> agreement.agreement_strength,
      insight |-> agreement.dialogue_insight ]

\* The loop over results['hidden_agreements'], up to the k-th.
RECURSIVE AddAgreements(_, _, _, _)
AddAgreements(session, agreements, analysis_id, k) ==
    IF k = 0 THEN session
    ELSE SessionAdd(AddAgreements(session, agreements, analysis_id, k - 1),
                    "hidden_agreements", AgreementRow(agreements[k], analysis_id))

\* except: session.rollback(); raise e -- finally: session.close()
SaveRaised(rows, session) ==
    [ database |-> rows, raised |-> TRUE, id |-> 0,
      session |-> SessionClose(SessionDone(session)) ]

\* save_analysis: the tables after the call, whether it raised, the id it
\* returned and the session it leaves.  fault names the statement that
\* raises, if one does.
SaveAnalysis(rows, narrs, results, rendered, source_type, fault) ==
    LET s1 == SessionAdd(NewSession, "dialogue_analyses",
                         AnalysisRow(narrs, results, rendered, source_type))
    IN  IF fault = "flush" THEN SaveRaised(rows, s1)
        ELSE
        LET s2 == SessionFlush(s1, rows)
            analysis_id == s2.flushed[1].row.id
            s3 == AddAgreements(s2, results.hidden_agreements, analysis_id,
                                Len(results.hidden_agreements))
        IN  IF fault = "commit" THEN SaveRaised(rows, s3)
            ELSE
            LET committed == CommittedRows(s3, rows)
                s4 == SessionDone(s3)
            IN  IF fault = "refresh" THEN SaveRaised(committed, s4)
                ELSE [ database |-> committed, raised |-> FALSE, id |-> analysis_id,
                       session |-> SessionClose(s4) ]

----------------------------------------------------------------------------
(* The web application: POST /analyze-audio.  The server answers each       *)
(* request on a thread of its own; a request is at one of the places where  *)
(* it reads or writes what the requests share: the upload folder, the       *)
(* global whisper_model and the database.                                   *)

\* The most requests in flight.
MaxRequests == 2

\* What a request uploads: no 'audio' part, a part without a file name, or
\* a file name.
UploadNames == {"<no audio part>", "", "talk.wav", "../notes.mp3"}

\* secure_filename(file.filename)
SecureFilename(name) == IF name = "../notes.mp3" THEN "notes.mp3" ELSE name

\* len(s.strip()) > 50
MinSentenceLen == 50

\* sentences[:5]
MaxAudioNarratives == 5

\* sentence[:80]
PositionLen == 80

\* The transcription of sentences, each closed by a period.
RECURSIVE JoinSentences(_, _)
JoinSentences(sentences, k) ==
    IF k = 0 THEN << >>
    ELSE JoinSentences(sentences, k - 1) \o sentences[k] \o << "." >>

\* result['text'] of the recordings uploaded
Transcripts ==
    { JoinSentences(ss, Len(ss)) :
        ss \in { << >>,
                 << SentenceShort >>,
                 << SentenceReform >>,
                 << SentenceReform, SentenceMarkets >>,
                 << SentenceReform, SentenceShort, SentenceMarkets >>,
                 << SentenceReform, SentenceMarkets, SentenceReform,
                    SentenceMarkets, SentenceReform, SentenceMarkets >> } }

\* transcript.split('.')
RECURSIVE SplitSentences(_)
SplitSentences(words) ==
    LET stops == {i \in 1..Len(words) : words[i] = "."}
    IN  IF stops = {} THEN << words >>
        ELSE LET i == CHOOSE s \in stops : \A t \in stops : s <= t
             IN  << SubSeq(words, 1, i - 1) >>
                 \o SplitSentences(SubSeq(words, i + 1, Len(words)))

\* len(s.strip())
CharLen(words) ==
    IF Len(words) = 0 THEN 0
    ELSE Offset(words, Len(words)) + WordLen(words[Len(words)])

\* sentence[:80]: the sentence, or its words that end within 80 characters
SentencePrefix(words) ==
    LET fits == {k \in 0..Len(words) : CharLen(SubSeq(words, 1, k)) <= PositionLen}
    IN  SubSeq(words, 1, CHOOSE k \in fits : \A l \in fits : l <= k)

SpeakerLabel(i) ==
    << "Speaker_1", "Speaker_2", "Speaker_3", "Speaker_4", "Speaker_5" >>[i]

\* The narratives made of the transcript.
ExtractNarratives(transcript) ==
    LET sentences == SelectSeq(SplitSentences(transcript),
                               LAMBDA s : CharLen(s) > MinSentenceLen)
        kept == Take(sentences, MaxAudioNarratives)
    IN  [i \in 1..Len(kept) |->
            [ speaker |-> SpeakerLabel(i), text |-> kept[i],
              position |-> SentencePrefix(kept[i]) ]]

\* analyzer.analyze_dialogue(narratives)
AnalyzeDialogue(narrs, seed) ==
    LET analyses == AnalyzeAll(narrs, Len(narrs))
    IN  [ individual_analyses |-> analyses,
          hidden_agreements |-> DetectAgreements(analyses, seed),
          narratives |-> narrs ]

\* The locals of a request that has not arrived.
IdleRequest ==
    [ pc |-> "idle", filename |-> "", saved |-> FALSE, model |-> 0,
      transcript |-> << >>, narratives |-> << >>, results |-> << >>,
      report |-> << >>, analysis_id |-> 0, session |-> "none",
      response |-> << >> ]

\* jsonify({'success': False, 'error': ...}), status
Failure(status, error) == [ status |-> status, success |-> FALSE, error |-> error ]

\* The module's top level: the globals of a process that starts serving.
InitWeb ==
    /\ hashSeed \in HashSeeds
    /\ narratives = << >>
    /\ individual_analyses = << >>
    /\ hidden_agreements = << >>
    /\ report = << >>
    /\ first = << >>
    /\ outcome = "none"
    /\ pc = "serving"
    /\ uploads = << >>
    /\ whisper_model = 0
    /\ load_calls = 0
    /\ database = EmptyDatabase
    /\ requests = [r \in 1..MaxRequests |-> IdleRequest]

\* The file of the upload folder written by request r under a name.
WriteFile(folder, name, r) ==
    [n \in DOMAIN folder \cup {name} |-> IF n = name THEN r ELSE folder[n]]

\* os.remove
RemoveFile(folder, name) == [n \in DOMAIN folder \ {name} |-> folder[n]]

\* analyze_audio up to file.save(filepath)
Receive(r) ==
    /\ requests[r].pc = "idle"
    /\ \E name \in UploadNames :
          IF name = "<no audio part>"
          THEN /\ requests' = [requests EXCEPT ![r].pc = "done",
                                  ![r].response = Failure(400, "No audio file uploaded")]
               /\ UNCHANGED uploads
          ELSE IF name = ""
          THEN /\ requests' = [requests EXCEPT ![r].pc = "done",
                                  ![r].response = Failure(400, "No file selected")]
               /\ UNCHANGED uploads
          ELSE /\ uploads' = WriteFile(uploads, SecureFilename(name), r)
               /\ requests' = [requests EXCEPT ![r].pc = "saved",
                                  ![r].filename = SecureFilename(name),
                                  ![r].saved = TRUE]
    /\ UNCHANGED << whisper_model, load_calls, database >>
    /\ UNCHANGED coreVars

\* load_whisper: if whisper_model is None
LoadWhisperTest(r) ==
    /\ requests[r].pc = "saved"
    /\ requests' = [requests EXCEPT ![r].pc =
                       IF whisper_model = 0 THEN "loading" ELSE "returning"]
    /\ UNCHANGED << uploads, whisper_model, load_calls, database >>
    /\ UNCHANGED coreVars

\* load_whisper: whisper_model = whisper.load_model("base"); every call of
\* load_model makes a model of its own
LoadModel(r) ==
    /\ requests[r].pc = "loading"
    /\ load_calls' = load_calls + 1
    /\ whisper_model' = load_calls + 1
    /\ requests' = [requests EXCEPT ![r].pc = "returning"]
    /\ UNCHANGED << uploads, database >>
    /\ UNCHANGED coreVars

\* load_whisper: return whisper_model
ReturnModel(r) ==
    /\ requests[r].pc = "returning"
    /\ requests' = [requests EXCEPT ![r].pc = "loaded", ![r].model = whisper_model]
    /\ UNCHANGED << uploads, whisper_model, load_calls, database >>
    /\ UNCHANGED coreVars

\* model.transcribe(filepath) up to report = analyzer.generate_report(results)
TranscribeAndAnalyze(r) ==
    /\ requests[r].pc = "loaded"
    /\ \/ requests' = [requests EXCEPT ![r].pc = "done",
                          ![r].response = Failure(500, "transcription failed")]
       \/ /\ requests[r].filename \in DOMAIN uploads
          /\ \E transcript \in Transcripts :
                LET narrs == ExtractNarratives(transcript)
                    results == AnalyzeDialogue(narrs, hashSeed)
                IN  IF Len(narrs) < 2
                    THEN requests' = [requests EXCEPT ![r].pc = "done",
                             ![r].transcript = transcript,
                             ![r].narratives = narrs,
                             ![r].response =
                                 Failure(400, "Could not extract enough dialogue from audio")]
                    ELSE requests' = [requests EXCEPT ![r].pc = "reported",
                             ![r].transcript = transcript,
                             ![r].narratives = narrs,
                             ![r].results = results,
                             ![r].report = GenerateReport(results, hashSeed)]
    /\ UNCHANGED << uploads, whisper_model, load_calls, database >>
    /\ UNCHANGED coreVars

\* db.save_analysis(narratives, results, report, source_type='audio')
Save(r) ==
    /\ requests[r].pc = "reported"
    /\ \E fault \in Faults :
          LET saved == SaveAnalysis(database, requests[r].narratives,
                                    requests[r].results, requests[r].report,
                                    "audio", fault)
          IN  /\ database' = saved.database
              /\ requests' =
                     IF saved.raised
                     THEN [requests EXCEPT ![r].pc = "done",
                              ![r].session = saved.session.state,
                              ![r].response = Failure(500, fault)]
                     ELSE [requests EXCEPT ![r].pc = "persisted",
                              ![r].session = saved.session.state,
                              ![r].analysis_id = saved.id]
    /\ UNCHANGED << uploads, whisper_model, load_calls >>
    /\ UNCHANGED coreVars

\* os.remove(filepath) and the response
Remove(r) ==
    /\ requests[r].pc = "persisted"
    /\ IF requests[r].filename \in DOMAIN uploads
       THEN /\ uploads' = RemoveFile(uploads, requests[r].filename)
            /\ requests' = [requests EXCEPT ![r].pc = "done",
                               ![r].response =
                                   [ status |-> 200, success |-> TRUE,
                                     report |-> requests[r].report,
                                     analysis_id |-> requests[r].analysis_id,
                                     transcript |-> requests[r].transcript,
                                     summary |->
                                         [ speakers |-> Len(requests[r].narratives),
                                           hidden_agreements |->
                                               Len(requests[r].results.hidden_agreements) ] ]]
       ELSE /\ UNCHANGED uploads
            /\ requests' = [requests EXCEPT ![r].pc = "done",
                               ![r].response = Failure(500, "No such file or directory")]
    /\ UNCHANGED << whisper_model, load_calls, database >>
    /\ UNCHANGED coreVars

NextWeb ==
    \E r \in 1..MaxRequests :
        \/ Receive(r)
        \/ LoadWhisperTest(r)
        \/ LoadModel(r)
        \/ ReturnModel(r)
        \/ TranscribeAndAnalyze(r)
        \/ Save(r)
        \/ Remove(r)

SpecWeb == InitWeb /\ [][NextWeb]_vars

----------------------------------------------------------------------------
(* What the properties below read off a state *)

Detected == pc \in {"detected", "redetected"}

AnalysisOf(speaker) ==
    (CHOOSE e \in Range(individual_analyses) : e.speaker = speaker).analysis

PositionOf(speaker) ==
    CHOOSE i \in 1..Len(individual_analyses) : individual_analyses[i].speaker = speaker

TopValuesOf(speaker) ==
    Range(Get(Get(AnalysisOf(speaker), "values", << >>), "top_values", << >>))

DominantOf(speaker) ==
    Get(Get(AnalysisOf(speaker), "pramana", << >>), "dominant_pramana", "")

HasChain(speaker) ==
    Len(Get(Get(AnalysisOf(speaker), "reasoning", << >>), "chain", << >>)) > 0

\* The tags of an agreement that both of its speakers hold.
DirectTags(agreement) ==
    TopValuesOf(agreement.person_a) \cap TopValuesOf(agreement.person_b)

\* The weighted sum as section 4.5 states it, in ten-thousandths.
StatedStrength(n_shared, pramana_similarity, reasoning_compatibility) ==
    (IF n_shared >= 3 THEN 6000 ELSE 2000 * n_shared)
    + 25 * pramana_similarity + 15 * reasoning_compatibility

\* The index pairs i < j of the mapping, as combinations enumerates them.
SpeakerPairs ==
    {p \in (1..Len(individual_analyses)) \X (1..Len(individual_analyses)) : p[1] < p[2]}

Recorded(p) ==
    {k \in 1..Len(hidden_agreements) :
        /\ hidden_agreements[k].person_a = individual_analyses[p[1]].speaker
        /\ hidden_agreements[k].person_b = individual_analyses[p[2]].speaker}

----------------------------------------------------------------------------
(* C1: a pair of speakers is in the list detect_agreements returns exactly  *)
(* when its agreement_strength is above 0.1 or its shared_values are not    *)
(* empty; it is there once, and nothing else is in the list.                *)
C1_InclusionRule ==
    Detected =>
        /\ \A p \in SpeakerPairs :
              LET a == individual_analyses[p[1]].analysis
                  b == individual_analyses[p[2]].analysis
                  shared == FindSharedValues(a, b, hashSeed)
                  strength == StatedStrength(Len(shared), ComparePramana(a, b),
                                             CompareReasoning(a, b))
              IN  /\ Cardinality(Recorded(p)) <= 1
                  /\ Recorded(p) # {} <=> (strength > 1000 \/ Len(shared) > 0)
        /\ \A k \in 1..Len(hidden_agreements) :
              \E p \in SpeakerPairs : k \in Recorded(p)

\* A pair recorded on its strength alone, the weakest there is, beside a
\* pair recorded with shared values.
C1_Witness ==
    /\ Detected
    /\ \E k \in 1..Len(hidden_agreements) :
          /\ hidden_agreements[k].shared_values = << >>
          /\ hidden_agreements[k].agreement_strength = 1050
    /\ \E k \in 1..Len(hidden_agreements) :
          Len(hidden_agreements[k].shared_values) > 0

(* C2: every agreement's strength is 0.6 * min(|shared_values| / 3, 1) +    *)
(* 0.25 * pramana_similarity + 0.15 * reasoning_compatibility and lies in   *)
(* [0, 1].                                                                  *)
C2_StrengthFormula ==
    Detected =>
        \A k \in 1..Len(hidden_agreements) :
            LET g == hidden_agreements[k]
            IN  /\ g.agreement_strength =
                       StatedStrength(Len(g.shared_values), g.pramana_similarity,
                                      g.reasoning_compatibility)
                /\ g.agreement_strength >= 0
                /\ g.agreement_strength <= 10000

\* The largest inputs: five shared values, similarity 0.9, compatibility 0.7.
C2_Witness ==
    /\ Detected
    /\ \E k \in 1..Len(hidden_agreements) :
          /\ Len(hidden_agreements[k].shared_values) = 5
          /\ hidden_agreements[k].pramana_similarity = 90
          /\ hidden_agreements[k].reasoning_compatibility = 70
          /\ hidden_agreements[k].agreement_strength = 9300

\* The place of an agreement's pair in the enumeration.
PairRank(g) == PositionOf(g.person_a) * (Len(individual_analyses) + 1) + PositionOf(g.person_b)

(* C3: the returned list is in non-increasing order of agreement_strength,  *)
(* and agreements of equal strength keep the order in which their pairs     *)
(* were enumerated.                                                         *)
C3_SortedStable ==
    Detected =>
        \A k, l \in 1..Len(hidden_agreements) :
            k < l =>
                LET g == hidden_agreements[k]
                    h == hidden_agreements[l]
                IN  /\ g.agreement_strength >= h.agreement_strength
                    /\ g.agreement_strength = h.agreement_strength
                          => PairRank(g) < PairRank(h)

\* Three agreements: the sort moved the last pair enumerated to the front,
\* and the other two tie.
C3_Witness ==
    /\ pc = "detected"
    /\ Len(hidden_agreements) = 3
    /\ hidden_agreements[1].person_a = "Bob"
    /\ hidden_agreements[1].person_b = "Carol"
    /\ hidden_agreements[1].agreement_strength > hidden_agreements[2].agreement_strength
    /\ hidden_agreements[2].agreement_strength = hidden_agreements[3].agreement_strength
    /\ hidden_agreements[2].person_b = "Bob"
    /\ hidden_agreements[3].person_b = "Carol"

(* C4: detect on the mapping with A first and on the mapping with B first   *)
(* give the pair the same shared_values, the same pramana_similarity and    *)
(* the same reasoning_compatibility.                                        *)
C4_Symmetry ==
    (pc = "redetected" /\ Len(individual_analyses) = 2) =>
        /\ Len(first) = Len(hidden_agreements)
        /\ \A k \in 1..Len(first) :
              /\ first[k].shared_values = hidden_agreements[k].shared_values
              /\ first[k].pramana_similarity = hidden_agreements[k].pramana_similarity
              /\ first[k].reasoning_compatibility =
                     hidden_agreements[k].reasoning_compatibility

(* C5: shared_values has at most five entries, every tag both speakers hold *)
(* comes before every tag the related-values expansion added, and the cap   *)
(* never drops a tag both speakers hold.                                    *)
C5_CapKeepsDirectFirst ==
    Detected =>
        \A k \in 1..Len(hidden_agreements) :
            LET g == hidden_agreements[k]
                shared == g.shared_values
            IN  /\ Len(shared) <= 5
                /\ DirectTags(g) \subseteq Range(shared)
                /\ \A i, j \in 1..Len(shared) :
                      (i < j /\ shared[j] \in DirectTags(g)) => shared[i] \in DirectTags(g)

\* The cap cut the list: it held a tag of both speakers and more than five
\* tags in all.
C5_Witness ==
    /\ pc = "detected"
    /\ Len(individual_analyses) = 2
    /\ Len(hidden_agreements) = 1
    /\ DirectTags(hidden_agreements[1]) # {}
    /\ Len(SharedUncapped(individual_analyses[1].analysis,
                          individual_analyses[2].analysis, hashSeed)) > 5
    /\ \E i \in 1..5 : hidden_agreements[1].shared_values[i] \notin DirectTags(hidden_agreements[1])

\* The similarity as section 4.5 step 2 states it, in hundredths.
StatedSimilarity(da, db) ==
    CASE da = "" \/ db = "" -> 30
      [] da = db -> 90
      [] {da, db} = {"pratyaksha", "anumana"} -> 60
      [] {da, db} = {"sabda", "anumana"} -> 60
      [] {da, db} = {"pratyaksha", "sabda"} -> 60
      [] OTHER -> 30

(* C6: pramana_similarity is 0.9 for equal non-empty dominant categories,   *)
(* 0.6 for the three compatible unordered pairs and 0.3 otherwise, also     *)
(* when either dominant category, or both, is missing or empty.             *)
C6_PramanaSimilarity ==
    Detected =>
        \A k \in 1..Len(hidden_agreements) :
            LET g == hidden_agreements[k]
            IN  g.pramana_similarity =
                    StatedSimilarity(DominantOf(g.person_a), DominantOf(g.person_b))

\* Both speakers lack a dominant category (one has the key missing, one has
\* it empty), and the pair scores 0.3.
C6_Witness ==
    /\ pc = "detected"
    /\ Len(individual_analyses) = 2
    /\ "dominant_pramana" \notin DOMAIN individual_analyses[1].analysis.pramana
    /\ DominantOf("Bob") = ""
    /\ "dominant_pramana" \in DOMAIN individual_analyses[2].analysis.pramana
    /\ Len(hidden_agreements) = 1
    /\ hidden_agreements[1].pramana_similarity = 30

(* C7: reasoning_compatibility is 0.7 when both speakers have a non-empty   *)
(* reasoning chain, 0.4 when exactly one has, 0.2 when neither has.         *)
C7_ReasoningCompatibility ==
    Detected =>
        \A k \in 1..Len(hidden_agreements) :
            LET g == hidden_agreements[k]
                n == Cardinality({s \in {g.person_a, g.person_b} : HasChain(s)})
            IN  g.reasoning_compatibility =
                    (CASE n = 2 -> 70 [] n = 1 -> 40 [] OTHER -> 20)

\* Exactly one of the two speakers has a chain, and it is the second.
C7_Witness ==
    /\ pc = "detected"
    /\ Len(hidden_agreements) = 1
    /\ ~HasChain(hidden_agreements[1].person_a)
    /\ HasChain(hidden_agreements[1].person_b)
    /\ hidden_agreements[1].reasoning_compatibility = 40

(* C8: analyze_dialogue on narratives of fewer than two distinct speakers  *)
(* (none, one, or several of one name) ends in a ValidationError and gives  *)
(* no result.                                                               *)
C8_TooFewSpeakersRejected ==
    (pc = "analyzed" /\ Cardinality({narratives[i].speaker : i \in 1..Len(narratives)}) < 2)
        => outcome = "ValidationError"

(* C9: analyze_dialogue and generate_report run a second time on the same   *)
(* narratives give the same analyses, the same agreements and the same      *)
(* report as the first time.                                                *)
C9_Idempotent ==
    pc = "reported_again" =>
        /\ first.individual_analyses = individual_analyses
        /\ first.hidden_agreements = hidden_agreements
        /\ first.report = report

\* The scores classify_pramana returned for the one narrative.
ReturnedPramana == individual_analyses[1].analysis.pramana

(* C10: the dominant category classify_pramana returns has the largest      *)
(* score, and every category before it in the order pratyaksha, anumana,    *)
(* sabda, upamana has a strictly smaller one.                               *)
C10_DominantIsFirstMax ==
    (pc \in {"analyzed", "reported"} /\ Len(individual_analyses) = 1) =>
        LET d == IndexOf(Pramanas, ReturnedPramana.dominant_pramana)
        IN  /\ d \in 1..Len(Pramanas)
            /\ \A j \in 1..Len(Pramanas) :
                  ReturnedPramana.scores[Pramanas[j]] <= ReturnedPramana.scores[Pramanas[d]]
            /\ \A j \in 1..(d - 1) :
                  ReturnedPramana.scores[Pramanas[j]] < ReturnedPramana.scores[Pramanas[d]]

\* 'studies show' comes first in the text and 'therefore' after it; they
\* tie at one match each and the category declared first, anumana, wins.
C10_Witness ==
    /\ pc = "analyzed"
    /\ narratives[1].text = << "studies", "show", "therefore" >>
    /\ ReturnedPramana.scores["sabda"] = 1
    /\ ReturnedPramana.scores["anumana"] = 1
    /\ ReturnedPramana.dominant_pramana = "anumana"

\* The one narrative is the text of the scenario of section 8 and
\* classify_pramana has returned.
ScenarioClassified ==
    /\ pc \in {"analyzed", "reported"}
    /\ Len(narratives) = 1
    /\ narratives[1].text = TextScenario

(* C11, as stated: for "Studies show exercise helps. Therefore we should    *)
(* act." classify_pramana returns sabda as the dominant category.           *)
C11_ScenarioIsTestimony ==
    ScenarioClassified => ReturnedPramana.dominant_pramana = "sabda"

(* C11, amended: for that text sabda and anumana score one match each and   *)
(* classify_pramana returns anumana, the one declared first.                *)
C11_ScenarioIsInference ==
    ScenarioClassified =>
        /\ ReturnedPramana.scores["sabda"] = 1
        /\ ReturnedPramana.scores["anumana"] = 1
        /\ ReturnedPramana.scores["pratyaksha"] = 0
        /\ ReturnedPramana.scores["upamana"] = 0
        /\ ReturnedPramana.dominant_pramana = "anumana"

\* The scenario text classified, with its tie.
C11_Witness ==
    /\ ScenarioClassified
    /\ pc = "analyzed"
    /\ ReturnedPramana.confidence = [num |-> 1, den |-> 2]
    /\ ReturnedPramana.dominant_pramana # "sabda"

\* sum(scores.values()) of the returned scores.
ReturnedTotal ==
    SumSeq([k \in 1..Len(Pramanas) |-> ReturnedPramana.scores[Pramanas[k]]], Len(Pramanas))

(* C12: when the scores sum to 0 (the empty text included) the dominant      *)
(* category is pratyaksha and the confidence is 0; always the confidence is  *)
(* scores[dominant] / max(sum(scores), 1) and lies in [0, 1].                *)
C12_DefaultAndConfidence ==
    (pc \in {"analyzed", "reported"} /\ Len(individual_analyses) = 1) =>
        /\ ReturnedTotal = 0 =>
              /\ ReturnedPramana.dominant_pramana = "pratyaksha"
              /\ ReturnedPramana.confidence.num = 0
        /\ ReturnedPramana.confidence.num =
               ReturnedPramana.scores[ReturnedPramana.dominant_pramana]
        /\ ReturnedPramana.confidence.den = Max(ReturnedTotal, 1)
        /\ 0 <= ReturnedPramana.confidence.num
        /\ ReturnedPramana.confidence.num <= ReturnedPramana.confidence.den

\* The empty text: no match, the default category, confidence 0 / 1.
C12_Witness ==
    /\ pc = "analyzed"
    /\ Len(individual_analyses) = 1
    /\ narratives[1].text = << >>
    /\ ReturnedTotal = 0
    /\ ReturnedPramana.dominant_pramana = "pratyaksha"
    /\ ReturnedPramana.confidence = [num |-> 0, den |-> 1]

\* What extract_values returned for the one narrative.
ReturnedValues == individual_analyses[1].analysis.values

(* C13: top_values has at most 5 entries, every entry has a score above 0,  *)
(* the scores do not increase along the list, entries of equal score stand  *)
(* in taxonomy order, and a tag with a positive score is left out only when *)
(* the list is full of tags that score at least as much.                    *)
C13_TopValues ==
    (pc \in {"analyzed", "reported"} /\ Len(individual_analyses) = 1) =>
        LET top == ReturnedValues.top_values
            scores == ReturnedValues.scores
        IN  /\ Len(top) <= 5
            /\ \A k \in 1..Len(top) : top[k] \in TagSet /\ scores[top[k]] > 0
            /\ \A k, l \in 1..Len(top) :
                  k < l =>
                      /\ scores[top[k]] >= scores[top[l]]
                      /\ scores[top[k]] = scores[top[l]]
                            => IndexOf(Tags, top[k]) < IndexOf(Tags, top[l])
            /\ \A t \in TagSet :
                  (scores[t] > 0 /\ ~Contains(top, t)) =>
                      /\ Len(top) = 5
                      /\ \A k \in 1..Len(top) : scores[top[k]] >= scores[t]

\* Seven tags score: the last of the taxonomy scores most and comes first,
\* four that tie follow in taxonomy order and two that tie with them are cut.
C13_Witness ==
    /\ pc = "analyzed"
    /\ Len(individual_analyses) = 1
    /\ \A t \in TagSet : ReturnedValues.scores[t] > 0
    /\ ReturnedValues.scores["freedom_and_autonomy"] = 2
    /\ ReturnedValues.top_values =
           << "freedom_and_autonomy", "justice_and_fairness", "health_and_wellbeing",
              "economic_security", "family_protection" >>

\* What analyze_reasoning returned for the one narrative.
ReturnedReasoning == individual_analyses[1].analysis.reasoning

\* The number of matches of the patterns of one element type in the text.
MatchCount(text, element_type) ==
    LET patterns == ReasoningPatterns(element_type)
    IN  SumSeq([k \in 1..Len(patterns) |-> Len(MatchStarts(text, patterns[k]))],
               Len(patterns))

(* C14: the chain has one entry for every match of every pattern of every   *)
(* element type, its positions do not decrease from one entry to the next,  *)
(* and has_logical_structure is true exactly when the chain is not empty.   *)
C14_ChainOrdered ==
    (pc \in {"analyzed", "reported"} /\ Len(individual_analyses) = 1) =>
        LET chain == ReturnedReasoning.chain
        IN  /\ \A t \in Range(ElementTypes) :
                  Cardinality({k \in 1..Len(chain) : chain[k].type = t})
                      = MatchCount(narratives[1].text, t)
            /\ \A k \in 1..Len(chain) : chain[k].type \in Range(ElementTypes)
            /\ \A k \in 1..(Len(chain) - 1) : chain[k].position <= chain[k + 1].position
            /\ ReturnedReasoning.has_logical_structure <=> Len(chain) > 0

\* 'we must because': the conclusion is collected last and stands first, at
\* offset 0; the premise is collected first and stands second, at offset 8.
C14_Witness ==
    /\ pc = "analyzed"
    /\ Len(individual_analyses) = 1
    /\ Len(ReturnedReasoning.chain) = 2
    /\ ReturnedReasoning.chain[1].type = "conclusion"
    /\ ReturnedReasoning.chain[1].position = 0
    /\ ReturnedReasoning.chain[2].type = "premise"
    /\ ReturnedReasoning.chain[2].position = 8
    /\ ReturnedReasoning.has_logical_structure

\* The two speakers of an agreement, as a set.
PairOf(agreement) == {agreement.person_a, agreement.person_b}

(* C15: for n speakers the pairs detect_agreements goes through are the     *)
(* n*(n-1)/2 pairs of two different speakers, each once; no agreement has   *)
(* one speaker twice, no two agreements have the same two speakers, and     *)
(* there are at most n*(n-1)/2 agreements.                                  *)
C15_EachPairOnce ==
    Detected =>
        LET n == Len(individual_analyses)
            pairs == Combinations2(n)
        IN  /\ Len(pairs) = (n * (n - 1)) \div 2
            /\ \A k \in 1..Len(pairs) :
                  /\ pairs[k][1] \in 1..n
                  /\ pairs[k][2] \in 1..n
                  /\ pairs[k][1] # pairs[k][2]
            /\ \A k, l \in 1..Len(pairs) :
                  k # l => {pairs[k][1], pairs[k][2]} # {pairs[l][1], pairs[l][2]}
            /\ Len(hidden_agreements) <= (n * (n - 1)) \div 2
            /\ \A k \in 1..Len(hidden_agreements) :
                  /\ Cardinality(PairOf(hidden_agreements[k])) = 2
                  /\ PairOf(hidden_agreements[k])
                         \subseteq {individual_analyses[i].speaker : i \in 1..n}
            /\ \A k, l \in 1..Len(hidden_agreements) :
                  k # l => PairOf(hidden_agreements[k]) # PairOf(hidden_agreements[l])

\* Four speakers and six agreements, one for each pair.
C15_Witness ==
    /\ pc = "detected"
    /\ Len(individual_analyses) = 4
    /\ Len(hidden_agreements) = 6
    /\ {PairOf(hidden_agreements[k]) : k \in 1..6}
           = {{a, b} : a, b \in {"Alice", "Bob", "Carol", "Dave"}}
                 \ {{a} : a \in {"Alice", "Bob", "Carol", "Dave"}}

\* The pair of speakers at indices p[1] < p[2] has no tag in both top_values
\* and the same dominant category.
DisjointSameSource(p) ==
    /\ TopValuesOf(individual_analyses[p[1]].speaker)
           \cap TopValuesOf(individual_analyses[p[2]].speaker) = {}
    /\ DominantOf(individual_analyses[p[1]].speaker)
           = DominantOf(individual_analyses[p[2]].speaker)

\* No tag of one speaker of the pair is related to a tag of the other.
NoRelatedTags(p) ==
    \A x \in TopValuesOf(individual_analyses[p[1]].speaker) :
        \A y \in TopValuesOf(individual_analyses[p[2]].speaker) :
            /\ ~Contains(RelatedValues(x), y)
            /\ ~Contains(RelatedValues(y), x)

(* C16, as stated: two speakers with no tag in common and equal dominant    *)
(* sources get an agreement with no shared values, a strength of            *)
(* 0.25 * pramana_similarity and nothing more, and the epistemic-only       *)
(* insight.                                                                 *)
C16_EpistemicOnly ==
    Detected =>
        \A p \in SpeakerPairs :
            DisjointSameSource(p) =>
                /\ Cardinality(Recorded(p)) = 1
                /\ \A k \in Recorded(p) :
                      /\ hidden_agreements[k].shared_values = << >>
                      /\ hidden_agreements[k].agreement_strength
                             = 25 * hidden_agreements[k].pramana_similarity
                      /\ hidden_agreements[k].dialogue_insight.template
                             = "similar_epistemological_approaches"

(* C16, amended: two speakers with no tag in common, no tag of one related  *)
(* to a tag of the other, and equal dominant sources get an agreement with  *)
(* no shared values, a strength of 0.25 * pramana_similarity + 0.15 *       *)
(* reasoning_compatibility, and the epistemic-only insight.                 *)
C16_EpistemicAndReasoningOnly ==
    Detected =>
        \A p \in SpeakerPairs :
            (DisjointSameSource(p) /\ NoRelatedTags(p)) =>
                /\ Cardinality(Recorded(p)) = 1
                /\ \A k \in Recorded(p) :
                      /\ hidden_agreements[k].shared_values = << >>
                      /\ hidden_agreements[k].agreement_strength
                             = 25 * hidden_agreements[k].pramana_similarity
                               + 15 * hidden_agreements[k].reasoning_compatibility
                      /\ hidden_agreements[k].dialogue_insight.template
                             = "similar_epistemological_approaches"

\* Alice holds justice_and_fairness, Bob progress_and_innovation, both rest
\* on sabda and only Alice has a chain: 0.25 * 0.9 + 0.15 * 0.4.
C16_Witness ==
    /\ pc = "detected"
    /\ Len(individual_analyses) = 2
    /\ TopValuesOf("Alice") = {"justice_and_fairness"}
    /\ TopValuesOf("Bob") = {"progress_and_innovation"}
    /\ DominantOf("Alice") = "sabda"
    /\ DominantOf("Bob") = "sabda"
    /\ Len(hidden_agreements) = 1
    /\ hidden_agreements[1].shared_values = << >>
    /\ hidden_agreements[1].agreement_strength = 2850
    /\ hidden_agreements[1].dialogue_insight.template = "similar_epistemological_approaches"

\* The recommendations of the call, and those of one template.
Recommendations == report.recommendations

OfKind(kind) == {k \in 1..Len(Recommendations) : Recommendations[k].kind = kind}

\* The agreements whose pramana_similarity is above 0.6.
HighSimilarity ==
    {k \in 1..Len(hidden_agreements) : hidden_agreements[k].pramana_similarity > 60}

(* C17, as stated: on a non-empty list the recommendation about similar     *)
(* reasoning methods is given only when more than one agreement has         *)
(* pramana_similarity > 0.6, and at most four recommendations are given.    *)
C17_MoreThanOnePair ==
    (pc = "recommended" /\ Len(hidden_agreements) > 0) =>
        /\ OfKind("similar_reasoning_methods") # {} => Cardinality(HighSimilarity) > 1
        /\ Len(Recommendations) <= 4

(* C17, amended: on a non-empty list the recommendation about similar       *)
(* reasoning methods is given exactly when at least one agreement has       *)
(* pramana_similarity > 0.6, once and with their number, and at most four   *)
(* recommendations are given.                                               *)
C17_AtLeastOnePair ==
    (pc = "recommended" /\ Len(hidden_agreements) > 0) =>
        /\ OfKind("similar_reasoning_methods") # {} <=> Cardinality(HighSimilarity) >= 1
        /\ Cardinality(OfKind("similar_reasoning_methods")) <= 1
        /\ \A k \in OfKind("similar_reasoning_methods") :
              Recommendations[k].count = Cardinality(HighSimilarity)
        /\ Len(Recommendations) <= 4

\* One agreement, of similarity 0.9, and the recommendation counts 1 pair.
C17_Witness ==
    /\ pc = "recommended"
    /\ Len(hidden_agreements) = 1
    /\ hidden_agreements[1].pramana_similarity = 90
    /\ \E k \in 1..Len(Recommendations) :
          Recommendations[k] = [kind |-> "similar_reasoning_methods", count |-> 1]

\* The three sentences section 4.5 calls the fixed fallback, in their order.
StatedFallback ==
    << [kind |-> "no_clear_hidden_agreements"],
       [kind |-> "try_identifying_shared_experiences"],
       [kind |-> "consider_a_neutral_facilitator"] >>

(* C18: generate_dialogue_recommendations([]) returns the three fallback    *)
(* sentences in their fixed order, and a non-empty list never gets them:    *)
(* neither the three together nor any one of them.                          *)
C18_FallbackOnlyWhenEmpty ==
    pc = "recommended" =>
        /\ Len(hidden_agreements) = 0 => Recommendations = StatedFallback
        /\ Len(hidden_agreements) > 0 =>
              /\ Recommendations # StatedFallback
              /\ \A k \in 1..Len(Recommendations) :
                    \A f \in 1..Len(StatedFallback) : Recommendations[k] # StatedFallback[f]

\* One speaker, so no pair and no agreement, and the fallback is returned.
C18_Witness ==
    /\ pc = "recommended"
    /\ Len(individual_analyses) = 1
    /\ hidden_agreements = << >>
    /\ Len(Recommendations) = 3
    /\ Recommendations[1].kind = "no_clear_hidden_agreements"
    /\ Recommendations[3].kind = "consider_a_neutral_facilitator"

(* C19: with no shared values the insight speaks of a shared epistemic      *)
(* approach when the two dominant sources are equal and of differing        *)
(* approaches, not of similar ones, when they differ; with shared values    *)
(* it frames the sources as the same way of knowing exactly when            *)
(* pramana_similarity > 0.7, as a gap to bridge otherwise, and closes on    *)
(* the first entry of shared_values.                                        *)
C19_InsightTemplate ==
    Detected =>
        \A k \in 1..Len(hidden_agreements) :
            LET g == hidden_agreements[k]
                insight == g.dialogue_insight
                same_source == DominantOf(g.person_a) = DominantOf(g.person_b)
            IN  IF g.shared_values = << >>
                THEN /\ same_source => insight.template = "similar_epistemological_approaches"
                     /\ ~same_source => insight.template # "similar_epistemological_approaches"
                ELSE /\ insight.template = "both_people_value"
                     /\ insight.framing = "same_way_of_knowing" <=> g.pramana_similarity > 70
                     /\ insight.framing = "bridging_this_gap" <=> g.pramana_similarity <= 70
                     /\ insight.concern = g.shared_values[1]

\* analyze_dialogue has returned.
Analyzed == pc \in {"analyzed", "reported", "reported_again"}

\* The index of the last narrative of a speaker.
LastNarrativeOf(speaker) ==
    CHOOSE j \in 1..Len(narratives) :
        /\ narratives[j].speaker = speaker
        /\ \A l \in (j + 1)..Len(narratives) : narratives[l].speaker # speaker

(* C20: after analyze_dialogue the keys of individual_analyses are the      *)
(* speaker names of the narratives, each once, and the profile of a name    *)
(* is the analysis of the last narrative that carries it.                   *)
C20_OneProfilePerSpeaker ==
    Analyzed =>
        /\ {individual_analyses[i].speaker : i \in 1..Len(individual_analyses)}
               = {narratives[j].speaker : j \in 1..Len(narratives)}
        /\ \A i, l \in 1..Len(individual_analyses) :
              i # l => individual_analyses[i].speaker # individual_analyses[l].speaker
        /\ \A i \in 1..Len(individual_analyses) :
              LET last == narratives[LastNarrativeOf(individual_analyses[i].speaker)]
              IN  /\ individual_analyses[i].analysis.text = last.text
                  /\ individual_analyses[i].analysis = AnalyzeNarrative(last)

\* Alice speaks first and last, with different texts, and Bob between: two
\* profiles, and Alice's is that of her last text.
C20_Witness ==
    /\ pc = "analyzed"
    /\ Len(narratives) = 3
    /\ narratives[1].speaker = "Alice"
    /\ narratives[2].speaker = "Bob"
    /\ narratives[3].speaker = "Alice"
    /\ narratives[1].text = TextAlice
    /\ narratives[3].text = TextBob
    /\ Len(individual_analyses) = 2
    /\ individual_analyses[1].speaker = "Alice"
    /\ individual_analyses[1].analysis.text = TextBob
    /\ individual_analyses[1].analysis.pramana.dominant_pramana = "pratyaksha"

----------------------------------------------------------------------------
(* C21 *)

\* C21: in the rendered report the total possible pairs is n(n-1)/2 for the
\* reported speaker count n, the reported agreement count never exceeds
\* that total, one speaker section is rendered per speaker counted, and the
\* agreements section is present exactly when the agreement list is
\* non-empty.
C21_ReportCounts ==
    pc \in {"reported", "reported_again"} =>
        LET n == report.total_speakers
        IN  /\ report.dialogue_connections * 2 = n * (n - 1)
            /\ report.agreements_found <= report.dialogue_connections
            /\ Len(report.speakers) = n
            /\ report.agreements_section <=> Len(hidden_agreements) > 0

----------------------------------------------------------------------------
(* C22 *)

(* C22: for a mapping of n >= 2 speakers detect_agreements returns exactly  *)
(* n(n-1)/2 agreements, one for every pair: the lowest strength, of a pair  *)
(* with no shared value, similarity 0.3 and compatibility 0.2, is above     *)
(* the threshold of 0.1, so no pair is left out, and the recommendations    *)
(* made from the list are never the fallback ones.                          *)
C22_EveryPairQualifies ==
    (pc \in {"detected", "redetected", "recommended"} /\ Len(individual_analyses) >= 2) =>
        LET n == Len(individual_analyses)
            minimum == CalculateAgreementStrength(<< >>, 30, 20)
        IN  /\ Len(hidden_agreements) * 2 = n * (n - 1)
            /\ \A p \in SpeakerPairs : Cardinality(Recorded(p)) = 1
            /\ \A k \in 1..Len(hidden_agreements) :
                  /\ hidden_agreements[k].agreement_strength >= minimum
                  /\ hidden_agreements[k].agreement_strength > AgreementThreshold
            /\ pc = "recommended" =>
                  \A k \in 1..Len(Recommendations) :
                      \A f \in 1..Len(FallbackRecommendations) :
                          Recommendations[k] # FallbackRecommendations[f]

\* Two speakers with no shared value, sources that are neither equal nor
\* compatible and no chain: the pair is returned at strength 0.105, and the
\* recommendations made from it are none.
C22_Witness ==
    /\ pc = "recommended"
    /\ Len(individual_analyses) = 2
    /\ Len(hidden_agreements) = 1
    /\ hidden_agreements[1].shared_values = << >>
    /\ hidden_agreements[1].pramana_similarity = 30
    /\ hidden_agreements[1].reasoning_compatibility = 20
    /\ hidden_agreements[1].agreement_strength = 1050
    /\ Recommendations = << >>

----------------------------------------------------------------------------
(* C23 *)

(* C23: the shared_values of every pair holds no tag twice, and every tag   *)
(* in it is in the top_values of one of the two speakers: a tag the         *)
(* related-values expansion added need not be held by both, but a tag held  *)
(* by neither is never there.                                               *)
C23_SharedHeldBySpeakers ==
    pc # "ready" =>
        \A k \in 1..Len(hidden_agreements) :
            LET g == hidden_agreements[k]
            IN  /\ NoDup(g.shared_values)
                /\ Range(g.shared_values) \subseteq
                       TopValuesOf(g.person_a) \cup TopValuesOf(g.person_b)

\* The expansion added tags to a direct overlap: the list holds a tag of
\* both speakers and a tag that only one of them holds, although the table
\* relates the tags of both to each other.
C23_Witness ==
    LET g == hidden_agreements[1]
        one_sided == (TopValuesOf(g.person_a) \cup TopValuesOf(g.person_b))
                         \ DirectTags(g)
    IN  /\ pc = "detected"
        /\ Len(hidden_agreements) = 1
        /\ DirectTags(g) # {}
        /\ Range(g.shared_values) \cap one_sided # {}
        /\ \E t \in DirectTags(g) : \E u \in DirectTags(g) : IsRelated(t, u)

----------------------------------------------------------------------------
(* C24 *)

(* C24: in the rendered report the Position line and the Knowledge Source   *)
(* and Top Values lines of every speaker section come from one and the      *)
(* same narrative, also when a speaker name occurs in several narratives.   *)
C24_SectionFromOneNarrative ==
    LET FromNarrative(section, j) ==
            /\ narratives[j].speaker = section.speaker
            /\ section.position = narratives[j].position
            /\ section.knowledge_source =
                   AnalyzeNarrative(narratives[j]).pramana.dominant_pramana
            /\ section.top_values =
                   Take(AnalyzeNarrative(narratives[j]).values.top_values, 3)
    IN  pc \in {"reported", "reported_again"} =>
            \A i \in 1..Len(report.speakers) :
                \E j \in 1..Len(narratives) : FromNarrative(report.speakers[i], j)

----------------------------------------------------------------------------
(* C25 *)

(* C25: a request to /analyze-audio that saved the uploaded file has        *)
(* removed it by the time its response is returned, whatever the response:  *)
(* success, 400 for fewer than two narratives, or 500 for an exception in   *)
(* transcription, analysis or persistence.                                  *)
C25_UploadRemoved ==
    LET UploadLeft(r) ==
            /\ requests[r].saved
            /\ requests[r].filename \in DOMAIN uploads
            /\ uploads[requests[r].filename] = r
    IN  \A r \in DOMAIN requests :
            requests[r].pc = "done" => ~UploadLeft(r)

----------------------------------------------------------------------------
(* C26 *)

(* C26: save_analysis is all-or-nothing.  After a call either the           *)
(* DialogueAnalysis row and exactly one HiddenAgreement row per entry of    *)
(* results['hidden_agreements'], all carrying the analysis id, are          *)
(* committed and the id is returned, or an exception is raised and no row   *)
(* of the call is persisted; either way the session is closed.              *)
C26_AllOrNothing ==
    [][LET SaveCall(r) ==
               requests[r].pc = "reported" /\ requests'[r].pc # "reported"
           SavedWhole(r) ==
               LET id == requests'[r].analysis_id
                   agreements == requests[r].results.hidden_agreements
                   before == Len(database.hidden_agreements)
                   analyses == Len(database.dialogue_analyses)
               IN  /\ requests'[r].pc = "persisted"
                   /\ Len(database'.dialogue_analyses) = analyses + 1
                   /\ SubSeq(database'.dialogue_analyses, 1, analyses)
                          = database.dialogue_analyses
                   /\ database'.dialogue_analyses[analyses + 1].id = id
                   /\ \A i \in 1..analyses : database.dialogue_analyses[i].id # id
                   /\ Len(database'.hidden_agreements) = before + Len(agreements)
                   /\ SubSeq(database'.hidden_agreements, 1, before)
                          = database.hidden_agreements
                   /\ \A k \in 1..Len(agreements) :
                         /\ database'.hidden_agreements[before + k].analysis_id = id
                         /\ database'.hidden_agreements[before + k].person_a
                                = agreements[k].person_a
                         /\ database'.hidden_agreements[before + k].person_b
                                = agreements[k].person_b
           SavedNothing(r) ==
               /\ requests'[r].pc = "done"
               /\ requests'[r].response.status = 500
               /\ database' = database
       IN  \A r \in DOMAIN requests :
               SaveCall(r) =>
                   /\ SavedWhole(r) \/ SavedNothing(r)
                   /\ requests'[r].session = "closed"]_vars

----------------------------------------------------------------------------
(* C27 *)

(* C27: the transcription model is loaded at most once per process.  Over   *)
(* any interleaving of /analyze-audio requests, also two that call          *)
(* load_whisper while the global is still None, whisper.load_model is       *)
(* invoked at most once and every request uses the same model.              *)
C27_LoadedOnce ==
    LET used == {requests[r].model :
                    r \in {q \in DOMAIN requests : requests[q].model # 0}}
    IN  /\ load_calls <= 1
        /\ Cardinality(used) <= 1

====
